---- MODULE Spec2Model ----
(***************************************************************************)
(* TrendRadar MCP tools: AnalyticsTools (mcp_server/tools/analytics.py)    *)
(* and SearchTools (mcp_server/tools/search_tools.py).                     *)
(*                                                                         *)
(* Conventions of the model                                                *)
(*  - a text is a sequence of one-character strings;                       *)
(*  - a float is kept exact, as a pair <<numerator, denominator>> or as an *)
(*    integer number of 1/10000 after round(x, 4);                         *)
(*  - a date is a day number; strftime("%Y-%m-%d") is zero padded, so the  *)
(*    order of the date strings is the order of the day numbers;           *)
(*  - the title repository is the variable store: the objects that         *)
(*    read_all_titles_for_date hands out, by reference.                    *)
(***************************************************************************)
EXTENDS Integers, Sequences, FiniteSets, TLC

VARIABLES store, call

vars == <<store, call>>

(***************************************************************************)
(* Bounds of the model.                                                    *)
(***************************************************************************)
MaxDay == 2

MaxRanksLen == 3

MaxTextLen == 3

(***************************************************************************)
(* Small helpers.                                                          *)
(***************************************************************************)
Min2(x, y) == IF x <= y THEN x ELSE y

Max2(x, y) == IF x >= y THEN x ELSE y

RECURSIVE SumSeq(_)
SumSeq(s) == IF s = << >> THEN 0 ELSE Head(s) + SumSeq(Tail(s))

\* texts of length 0..n over the characters cs
TextsUpTo(cs, n) == UNION {[1..k -> cs] : k \in 0..n}

(***************************************************************************)
(* str.lower() and the substring test `x in y`.                            *)
(***************************************************************************)
LowerChar(c) ==
    CASE c = "A" -> "a"
      [] c = "B" -> "b"
      [] c = "C" -> "c"
      [] OTHER -> c

Lower(s) == [i \in 1..Len(s) |-> LowerChar(s[i])]

\* Python's `sub in s` for strings
Contains(sub, s) ==
    \E i \in 0..(Len(s) - Len(sub)) :
        \A k \in 1..Len(sub) : s[i + k] = sub[k]

(***************************************************************************)
(* calculate_news_weight (analytics.py 24-74).  A record carries ranks and *)
(* optionally count; count falls back to len(ranks).  The result is the    *)
(* exact value total_weight = num/den as <<num, den>>, den = 10*len(ranks) *)
(* (<<0, 1>> for the early return 0.0).                                    *)
(***************************************************************************)
RankThresholdDefault == 5

\* the score without the clamp of the rank at 10
RankScoreUnclamped(rank) == 11 - rank

\* the score growing with the rank
RankScoreInverted(rank) == Min2(rank, 10)

RankScore(rank) == 11 - Min2(rank, 10)

RankScores(ranks) == [i \in 1..Len(ranks) |-> RankScore(ranks[i])]

HighRankCount(ranks, rank_threshold) ==
    Cardinality({i \in 1..Len(ranks) : ranks[i] <= rank_threshold})

RecordCount(news_data) ==
    IF news_data.hasCount THEN news_data.count ELSE Len(news_data.ranks)

\* rank_weight*0.6 + frequency_weight*0.3 + hotness_weight*0.1, times 10*n:
\*   rank_weight      = sum(rank_scores)/n
\*   frequency_weight = min(count, 10)*10
\*   hotness_weight   = high_rank_count/n*100
WeightWith(news_data, rank_threshold) ==
    LET ranks == news_data.ranks
        n     == Len(ranks)
        count == RecordCount(news_data)
    IN  IF n = 0
        THEN <<0, 1>>
        ELSE << 6 * SumSeq(RankScores(ranks))
                 + 3 * (Min2(count, 10) * 10) * n
                 + 100 * HighRankCount(ranks, rank_threshold),
                10 * n >>

calculate_news_weight(news_data) == WeightWith(news_data, RankThresholdDefault)

\* comparison of two exact values with positive denominators
RatLess(x, y) == x[1] * y[2] < y[1] * x[2]

RatLeq(x, y) == x[1] * y[2] <= y[1] * x[2]

RatEq(x, y) == x[1] * y[2] = y[1] * x[2]

(***************************************************************************)
(* difflib.SequenceMatcher(None, a, b).ratio(), as used by both            *)
(* _calculate_similarity methods.  Windows are half open and 0-based as in *)
(* difflib: positions alo..ahi-1 of a and blo..bhi-1 of b.  No element is  *)
(* junk (isjunk is None) and the autojunk heuristic needs len(b) >= 200,   *)
(* so the model covers texts shorter than 200 characters.                  *)
(***************************************************************************)
\* length of the common run that starts at a[i], b[j] and stays inside the window
RunLength(a, b, i, j, ahi, bhi) ==
    LET cap == Min2(ahi - i, bhi - j)
        ks  == {k \in 0..cap : \A m \in 1..k : a[i + m] = b[j + m]}
    IN  CHOOSE k \in ks : \A k2 \in ks : k2 <= k

\* find_longest_match: the longest block; of the longest ones the one that
\* starts earliest in a, and of those the one that starts earliest in b
FindLongestMatch(a, b, alo, ahi, blo, bhi) ==
    LET cells == (alo..(ahi - 1)) \X (blo..(bhi - 1))
        best  == IF cells = {} THEN 0
                 ELSE LET ls == {RunLength(a, b, c[1], c[2], ahi, bhi) : c \in cells}
                      IN  CHOOSE k \in ls : \A k2 \in ls : k2 <= k
    IN  IF best = 0
        THEN <<alo, blo, 0>>
        ELSE LET hits == {c \in cells : RunLength(a, b, c[1], c[2], ahi, bhi) = best}
                 first == CHOOSE c \in hits :
                              \A d \in hits : c[1] < d[1] \/ (c[1] = d[1] /\ c[2] <= d[2])
             IN  <<first[1], first[2], best>>

\* get_matching_blocks: the sum of the sizes of the blocks found by splitting
\* around the longest match, to its left and to its right
RECURSIVE MatchedChars(_, _, _, _, _, _)
MatchedChars(a, b, alo, ahi, blo, bhi) ==
    LET m == FindLongestMatch(a, b, alo, ahi, blo, bhi)
        i == m[1]
        j == m[2]
        k == m[3]
    IN  IF k = 0
        THEN 0
        ELSE k
             + (IF alo < i /\ blo < j THEN MatchedChars(a, b, alo, i, blo, j) ELSE 0)
             + (IF i + k < ahi /\ j + k < bhi
                THEN MatchedChars(a, b, i + k, ahi, j + k, bhi) ELSE 0)

\* the matches related to the length of the first text alone
SequenceRatioOfFirst(a, b) ==
    IF Len(a) + Len(b) = 0 THEN <<1, 1>>
    ELSE IF Len(a) = 0 THEN <<0, 1>>
    ELSE <<MatchedChars(a, b, 0, Len(a), 0, Len(b)), Len(a)>>

\* ratio(): 2.0*matches/length, and 1.0 when both texts are empty
SequenceRatio(a, b) ==
    LET length == Len(a) + Len(b)
    IN  IF length = 0 THEN <<1, 1>>
        ELSE <<2 * MatchedChars(a, b, 0, Len(a), 0, Len(b)), length>>

\* SearchTools._calculate_similarity lowers both texts first
Search_calculate_similarity(text1, text2) == SequenceRatio(Lower(text1), Lower(text2))

\* AnalyticsTools._calculate_similarity compares the raw texts
Analytics_calculate_similarity(text1, text2) == SequenceRatio(text1, text2)

\* round(x, digits) of x = r[1]/r[2], in units of 1/scale (scale = 10^digits);
\* Python rounds ties to the even neighbour
RoundTo(r, scale) ==
    LET q   == (r[1] * scale) \div r[2]
        rem == (r[1] * scale) % r[2]
    IN  IF 2 * rem > r[2] THEN q + 1
        ELSE IF 2 * rem < r[2] THEN q
        ELSE IF q % 2 = 0 THEN q ELSE q + 1

Round4(r) == RoundTo(r, 10000)

Round2(r) == RoundTo(r, 100)

(***************************************************************************)
(* The title repository (external collaborator) and the data of the model. *)
(* store[d] is the snapshot of day d: present or not, and its              *)
(* (platform, title) entries in the iteration order of the two nested      *)
(* dicts, each with its rank history.                                      *)
(***************************************************************************)
Days == 1..MaxDay

\* datetime.now(): the wall-clock day
Today == MaxDay

\* days a caller may name: day 0 is before the first stored day
QueryDays == 0..MaxDay

Platforms == {"p1", "p2"}

TitleAb == <<"A", "b">>

TitleAbc == <<"a", "b", "c">>

TitleAc == <<"a", "c">>

QueryAb == <<"a", "b">>

\* the rank history a crawl of day d stores for (platform, title)
CrawledRanks(d, platform, title) ==
    CASE title = TitleAb  -> <<d>>
      [] title = TitleAbc -> <<7, 3>>
      [] OTHER            -> IF d = 1 THEN <<11>> ELSE << >>

Entry(d, platform, title) ==
    [platform |-> platform, title |-> title, ranks |-> CrawledRanks(d, platform, title)]

\* the entries a day may hold: p1 lists TitleAb, or p1 TitleAc and p2 TitleAbc, or all
DayItems(d) ==
    { (IF x[1] THEN <<Entry(d, "p1", TitleAb)>> ELSE << >>)
        \o (IF x[2] THEN <<Entry(d, "p1", TitleAc), Entry(d, "p2", TitleAbc)>> ELSE << >>)
      : x \in (BOOLEAN \X BOOLEAN) \ {<<FALSE, FALSE>>} }

DaySnapshots(d) ==
    {[present |-> FALSE, items |-> << >>]}
        \cup {[present |-> TRUE, items |-> its] : its \in DayItems(d)}

Stores == {st \in [Days -> UNION {DaySnapshots(d) : d \in Days}] :
              \A d \in Days : st[d] \in DaySnapshots(d)}

\* id_to_name.get(platform_id, platform_id)
PlatformName(platform_id) == IF platform_id = "p1" THEN "n1" ELSE platform_id

\* platform_ids = None (no filter) is the empty set
NoFilter == {}

\* read_all_titles_for_date(date, platform_ids): the day's entries, DataNotFound
\* for a day without snapshot, or an unexpected exception on a day in fault
read_all_titles_for_date(st, date, platform_ids, fault) ==
    IF date \in fault THEN [k |-> "exc", items |-> << >>]
    ELSE IF date \notin DOMAIN st \/ ~st[date].present
    THEN [k |-> "notfound", items |-> << >>]
    ELSE LET Keep(e) == platform_ids = NoFilter \/ e.platform \in platform_ids
         IN  [k |-> "ok", items |-> SelectSeq(st[date].items, Keep)]

\* get_available_date_range(): (earliest, latest), (None, None) without data
get_available_date_range(st) ==
    LET have == {d \in Days : st[d].present}
    IN  IF have = {} THEN [has |-> FALSE, earliest |-> 0, latest |-> 0]
        ELSE [has |-> TRUE,
              earliest |-> CHOOSE d \in have : \A e \in have : d <= e,
              latest   |-> CHOOSE d \in have : \A e \in have : e <= d]

ReadCall(d) == <<"read", d>>

RangeCall == <<"range">>

(***************************************************************************)
(* Validators (mcp_server/utils/validators.py) and errors                  *)
(* (mcp_server/utils/errors.py).                                           *)
(***************************************************************************)
\* validate_keyword: a non-empty keyword, else InvalidParameterError
KeywordOk(keyword) == Len(keyword) > 0

\* a date_range argument: given or None; validate_date_range rejects start > end
NoRange == [given |-> FALSE, start |-> 0, end |-> 0]

Range(s, e) == [given |-> TRUE, start |-> s, end |-> e]

DateRangeOk(date_range) == date_range.start <= date_range.end

\* what a method body ends with: a returned envelope, a raised MCPError with
\* its code, or any other exception; log is the sequence of repository calls
Return(v, log) == [k |-> "ret", code |-> "", v |-> v, log |-> log]

RaiseMCP(code, log) == [k |-> "mcp", code |-> code, v |-> << >>, log |-> log]

RaiseOther(log) == [k |-> "exc", code |-> "", v |-> << >>, log |-> log]

Success(data) == [success |-> TRUE, code |-> "", data |-> data]

Failure(code) == [success |-> FALSE, code |-> code, data |-> << >>]

\* try: ... except MCPError as e: failure(e.to_dict()) except Exception: INTERNAL_ERROR
TryExceptLeaky(o) ==
    IF o.k = "ret" THEN [raised |-> FALSE, res |-> o.v]
    ELSE IF o.k = "mcp" THEN [raised |-> FALSE, res |-> Failure(o.code)]
    ELSE [raised |-> TRUE, res |-> Failure("")]

TryExcept(o) ==
    IF o.k = "ret" THEN [raised |-> FALSE, res |-> o.v]
    ELSE IF o.k = "mcp" THEN [raised |-> FALSE, res |-> Failure(o.code)]
    ELSE [raised |-> FALSE, res |-> Failure("INTERNAL_ERROR")]

\* the record of a finished call
Finished(op, args, o) ==
    LET t == TryExcept(o)
    IN  [op |-> op, args |-> args, log |-> o.log, res |-> t.res, raised |-> t.raised]

(***************************************************************************)
(* The day loop shared by the range operations:                            *)
(*   while current_date <= end_date:                                       *)
(*       try: read ... except DataNotFoundError: ...                       *)
(*       current_date += timedelta(days=1)                                 *)
(* An unexpected exception of a read leaves the loop (and the method body).*)
(* got holds, per day read, the date and what the read gave.               *)
(***************************************************************************)
\* the loop with "while current_date < end_date"
RECURSIVE ScanDaysExclusive(_, _, _, _, _)
ScanDaysExclusive(st, current_date, end_date, platform_ids, fault) ==
    IF current_date >= end_date
    THEN [log |-> << >>, got |-> << >>, exc |-> FALSE]
    ELSE LET r == read_all_titles_for_date(st, current_date, platform_ids, fault)
         IN  IF r.k = "exc"
             THEN [log |-> <<ReadCall(current_date)>>, got |-> << >>, exc |-> TRUE]
             ELSE LET rest == ScanDaysExclusive(st, current_date + 1, end_date,
                                                platform_ids, fault)
                  IN  [log |-> <<ReadCall(current_date)>> \o rest.log,
                       got |-> <<[date |-> current_date, found |-> r.k = "ok",
                                  items |-> r.items]>> \o rest.got,
                       exc |-> rest.exc]

RECURSIVE ScanDays(_, _, _, _, _)
ScanDays(st, current_date, end_date, platform_ids, fault) ==
    IF current_date > end_date
    THEN [log |-> << >>, got |-> << >>, exc |-> FALSE]
    ELSE LET r == read_all_titles_for_date(st, current_date, platform_ids, fault)
         IN  IF r.k = "exc"
             THEN [log |-> <<ReadCall(current_date)>>, got |-> << >>, exc |-> TRUE]
             ELSE LET rest == ScanDays(st, current_date + 1, end_date, platform_ids, fault)
                  IN  [log |-> <<ReadCall(current_date)>> \o rest.log,
                       got |-> <<[date |-> current_date, found |-> r.k = "ok",
                                  items |-> r.items]>> \o rest.got,
                       exc |-> rest.exc]

\* titles of a day's entries that contain the topic, case-insensitively
MatchedTitles(items, topic) ==
    LET Hit(e) == Contains(Lower(topic), Lower(e.title))
        hits   == SelectSeq(items, Hit)
    IN  [i \in 1..Len(hits) |-> hits[i].title]

FirstN(s, n) == SubSeq(s, 1, Min2(n, Len(s)))

\* the least index of s whose element satisfies v = s[i]
IndexOf(s, v) == CHOOSE i \in 1..Len(s) : s[i] = v /\ \A j \in 1..(i - 1) : s[j] # v

MaxOf(s) == CHOOSE v \in {s[i] : i \in 1..Len(s)} : \A i \in 1..Len(s) : s[i] <= v


(***************************************************************************)
(* AnalyticsTools.get_topic_trend_analysis (analytics.py 244-400).         *)
(* Labels: "up" is 上升, "down" is 下降, "flat" is 稳定.                   *)
(***************************************************************************)
\* the range to scan: the validated date_range, else the given default
StartOf(date_range, default_start) ==
    IF date_range.given THEN date_range.start ELSE default_start

EndOf(date_range, default_end) ==
    IF date_range.given THEN date_range.end ELSE default_end

TrendEntry(g, topic) ==
    LET matched == IF g.found THEN MatchedTitles(g.items, topic) ELSE << >>
    IN  [date |-> g.date, count |-> Len(matched), sample_titles |-> FirstN(matched, 3)]

\* next((c for c in counts if c > 0), 0)
FirstNonZero(counts) ==
    IF \E i \in 1..Len(counts) : counts[i] > 0
    THEN counts[CHOOSE i \in 1..Len(counts) :
                    counts[i] > 0 /\ \A j \in 1..(i - 1) : counts[j] <= 0]
    ELSE 0

TrendStatistics(trend_data) ==
    LET counts == [i \in 1..Len(trend_data) |-> trend_data[i].count]
        multi  == Len(counts) >= 2
        first_non_zero == FirstNonZero(counts)
        last_count     == counts[Len(counts)]
        change_rate == IF multi /\ first_non_zero > 0
                       THEN <<(last_count - first_non_zero) * 100, first_non_zero>>
                       ELSE <<0, 1>>
        max_count == IF multi THEN MaxOf(counts) ELSE 0
        peak_time == IF multi THEN <<trend_data[IndexOf(counts, max_count)].date>>
                     ELSE << >>
    IN  [total_mentions   |-> SumSeq(counts),
         average_mentions |-> IF Len(counts) > 0
                              THEN Round2(<<SumSeq(counts), Len(counts)>>) ELSE 0,
         peak_count  |-> max_count,
         peak_time   |-> peak_time,
         change_rate |-> Round2(change_rate),
         trend_direction |-> IF RatLess(<<10, 1>>, change_rate) THEN "up"
                             ELSE IF RatLess(change_rate, <<-10, 1>>) THEN "down"
                             ELSE "flat"]

get_topic_trend_analysis(st, args) ==
    IF ~KeywordOk(args.topic) THEN RaiseMCP("INVALID_PARAMETER", << >>)
    ELSE IF args.granularity # "day" THEN RaiseMCP("INVALID_PARAMETER", << >>)
    ELSE IF args.date_range.given /\ ~DateRangeOk(args.date_range)
    THEN RaiseMCP("INVALID_PARAMETER", << >>)
    ELSE
      LET start_date == StartOf(args.date_range, Today - 6)
          end_date   == EndOf(args.date_range, Today)
          scan == ScanDays(st, start_date, end_date, NoFilter, args.fault)
          trend_data == [i \in 1..Len(scan.got) |-> TrendEntry(scan.got[i], args.topic)]
      IN  IF scan.exc THEN RaiseOther(scan.log)
          ELSE Return(Success([start |-> start_date, end |-> end_date,
                               total_days |-> (end_date - start_date) + 1,
                               trend_data |-> trend_data,
                               statistics |-> TrendStatistics(trend_data)]),
                      scan.log)

(***************************************************************************)
(* AnalyticsTools.analyze_topic_lifecycle (analytics.py 1465-1621).        *)
(* Stages: "rising" 上升期, "declining" 衰退期, "bursting" 爆发期,         *)
(* "stable" 稳定期; types: "flash" 昙花一现, "sustained" 持续热点,         *)
(* "cyclical" 周期性热点.                                                  *)
(***************************************************************************)
LifecycleEntry(g, topic) ==
    [date  |-> g.date,
     count |-> IF g.found THEN Len(MatchedTitles(g.items, topic)) ELSE 0]

\* counts[:3] taken for counts[-3:]
LastNOfStart(s, n) == SubSeq(s, 1, Min2(n, Len(s)))

LastN(s, n) == SubSeq(s, Max2(1, Len(s) - n + 1), Len(s))

\* the stage with the test of the peak ahead of the test of the decline
LifecycleStagePeakFirst(recent_counts, early_counts, max_count) ==
    IF SumSeq(recent_counts) > SumSeq(early_counts) THEN "rising"
    ELSE IF \E i \in 1..Len(recent_counts) : recent_counts[i] = max_count
         THEN "bursting"
    ELSE IF 2 * SumSeq(recent_counts) < SumSeq(early_counts) THEN "declining"
    ELSE "stable"

\* if sum(recent_counts) > sum(early_counts) ... elif ... < sum(early_counts) * 0.5
\* ... elif max_count in recent_counts ... else
LifecycleStage(recent_counts, early_counts, max_count) ==
    IF SumSeq(recent_counts) > SumSeq(early_counts) THEN "rising"
    ELSE IF 2 * SumSeq(recent_counts) < SumSeq(early_counts) THEN "declining"
    ELSE IF \E i \in 1..Len(recent_counts) : recent_counts[i] = max_count
         THEN "bursting"
    ELSE "stable"

\* the classification with avg_count taken over all days of the range
TopicTypeMeanOfRange(active_days, max_count, sum_non_zero, total_days) ==
    IF active_days <= 2 /\ max_count * total_days > 2 * sum_non_zero THEN "flash"
    ELSE IF 10 * active_days >= 6 * total_days THEN "sustained"
    ELSE "cyclical"

\* if active_days <= 2 and max_count > avg_count * 2 ... elif active_days >=
\* total_days * 0.6 ... else; avg_count = sum(non_zero_counts)/len(non_zero_counts)
\* and len(non_zero_counts) = active_days
TopicType(active_days, max_count, sum_non_zero, total_days) ==
    IF active_days <= 2 /\ max_count * active_days > 2 * sum_non_zero THEN "flash"
    ELSE IF 10 * active_days >= 6 * total_days THEN "sustained"
    ELSE "cyclical"

LifecycleAnalysis(lifecycle_data, total_days) ==
    LET counts == [i \in 1..Len(lifecycle_data) |-> lifecycle_data[i].count]
        n      == Len(counts)
        first_i == CHOOSE i \in 1..n : counts[i] > 0 /\ \A j \in 1..(i - 1) : counts[j] <= 0
        last_i  == CHOOSE i \in 1..n : counts[i] > 0 /\ \A j \in (i + 1)..n : counts[j] <= 0
        max_count == MaxOf(counts)
        Pos(c)  == c > 0
        non_zero_counts == SelectSeq(counts, Pos)
        recent == SumSeq(LastN(counts, 3))
        early  == SumSeq(FirstN(counts, 3))
        recent_counts == LastN(counts, 3)
        active_days == Len(non_zero_counts)
    IN  [first_appearance |-> lifecycle_data[first_i].date,
         last_appearance  |-> lifecycle_data[last_i].date,
         peak_date  |-> lifecycle_data[IndexOf(counts, max_count)].date,
         peak_count |-> max_count,
         active_days |-> active_days,
         avg_daily_mentions |-> Round2(<<SumSeq(non_zero_counts), Len(non_zero_counts)>>),
         lifecycle_stage |-> LifecycleStage(recent_counts, FirstN(counts, 3), max_count),
         topic_type |-> TopicType(active_days, max_count, SumSeq(non_zero_counts),
                                  total_days)]

analyze_topic_lifecycle(st, args) ==
    IF ~KeywordOk(args.topic) THEN RaiseMCP("INVALID_PARAMETER", << >>)
    ELSE IF args.date_range.given /\ ~DateRangeOk(args.date_range)
    THEN RaiseMCP("INVALID_PARAMETER", << >>)
    ELSE
      LET start_date == StartOf(args.date_range, Today - 6)
          end_date   == EndOf(args.date_range, Today)
          scan == ScanDays(st, start_date, end_date, NoFilter, args.fault)
          lifecycle_data ==
              [i \in 1..Len(scan.got) |-> LifecycleEntry(scan.got[i], args.topic)]
          total_days == (end_date - start_date) + 1
      IN  IF scan.exc THEN RaiseOther(scan.log)
          ELSE IF \A i \in 1..Len(lifecycle_data) : lifecycle_data[i].count = 0
          THEN RaiseMCP("DATA_NOT_FOUND", scan.log)
          ELSE Return(Success([start |-> start_date, end |-> end_date,
                               total_days |-> total_days,
                               lifecycle_data |-> lifecycle_data,
                               analysis |-> LifecycleAnalysis(lifecycle_data, total_days)]),
                      scan.log)

(***************************************************************************)
(* SearchTools._extract_keywords (search_tools.py 442-466).                *)
(* Characters: " " is whitespace, the members of Punctuation are neither   *)
(* whitespace nor \w, every other character is a word character (\w).     *)
(* "yi", "ge" stand for the characters of the stopword 一个, "de" for 的.  *)
(***************************************************************************)
Punctuation == {"[", "]", ":", "/", ","}

IsSpace(c) == c = " "

IsWordChar(c) == ~IsSpace(c) /\ c \notin Punctuation

HasPrefixAt(s, i, pre) ==
    i + Len(pre) - 1 <= Len(s) /\ \A k \in 1..Len(pre) : s[i + k - 1] = pre[k]

\* the end of the run of characters satisfying the class that starts at i
\* (i - 1 when s[i] is not in the class)
RECURSIVE RunEnd(_, _, _)
RunEnd(s, i, wordRun) ==
    IF i > Len(s) THEN i - 1
    ELSE IF (wordRun /\ IsWordChar(s[i])) \/ (~wordRun /\ ~IsSpace(s[i]))
         THEN RunEnd(s, i + 1, wordRun)
         ELSE i - 1

\* re.sub(r'http[s]?://\S+', '', text)
UrlMatchEnd(s, i) ==
    LET k == IF HasPrefixAt(s, i, <<"h", "t", "t", "p", "s", ":", "/", "/">>) THEN 8
             ELSE IF HasPrefixAt(s, i, <<"h", "t", "t", "p", ":", "/", "/">>) THEN 7
             ELSE 0
    IN  IF k = 0 THEN 0
        ELSE IF RunEnd(s, i + k, FALSE) >= i + k THEN RunEnd(s, i + k, FALSE) ELSE 0

RECURSIVE StripUrls(_, _)
StripUrls(s, i) ==
    IF i > Len(s) THEN << >>
    ELSE IF UrlMatchEnd(s, i) > 0 THEN StripUrls(s, UrlMatchEnd(s, i) + 1)
    ELSE <<s[i]>> \o StripUrls(s, i + 1)

\* re.sub(r'\[.*?\]', '', text): from a "[" to the first "]" after it
RECURSIVE StripBrackets(_, _)
StripBrackets(s, i) ==
    IF i > Len(s) THEN << >>
    ELSE IF s[i] = "[" /\ \E j \in (i + 1)..Len(s) : s[j] = "]"
         THEN StripBrackets(s, (CHOOSE j \in (i + 1)..Len(s) :
                                   s[j] = "]" /\ \A m \in (i + 1)..(j - 1) : s[m] # "]") + 1)
         ELSE <<s[i]>> \o StripBrackets(s, i + 1)

\* re.findall(r'[\w]+', text): the maximal runs of word characters, in order
RECURSIVE FindWords(_, _)
FindWords(s, i) ==
    IF i > Len(s) THEN << >>
    ELSE IF IsWordChar(s[i])
         THEN <<SubSeq(s, i, RunEnd(s, i, TRUE))>> \o FindWords(s, RunEnd(s, i, TRUE) + 1)
         ELSE FindWords(s, i + 1)

\* self.stopwords of SearchTools (search_tools.py 30-36): of the 59 words
\* listed, 的, 一, 一个 and 可以 ("ke", "yi3")
SearchStopwords == {<<"de">>, <<"yi">>, <<"yi", "ge">>, <<"ke", "yi3">>}

Search_extract_keywords_KeepStopwords(text, min_length) ==
    LET words == FindWords(StripBrackets(StripUrls(text, 1), 1), 1)
        Keep(w) == Len(w) >= min_length
    IN  SelectSeq(words, Keep)

Search_extract_keywords(text, min_length) ==
    LET words == FindWords(StripBrackets(StripUrls(text, 1), 1), 1)
        Keep(w) == Len(w) >= min_length /\ w \notin SearchStopwords
    IN  SelectSeq(words, Keep)

SeqToSet(s) == {s[i] : i \in 1..Len(s)}

(***************************************************************************)
(* SearchTools._fuzzy_match (search_tools.py 405-440).  threshold is in    *)
(* hundredths; the result is <<matched, score>> with score exact.          *)
(***************************************************************************)
FuzzyDecision(threshold, similarity, query_words, text_words) ==
    IF RatLeq(<<threshold, 100>>, similarity) THEN <<TRUE, similarity>>
    ELSE IF query_words = {} \/ text_words = {} THEN <<FALSE, <<0, 1>>>>
    ELSE IF 2 * Cardinality(query_words \cap text_words) >= Cardinality(query_words)
         THEN <<TRUE, <<Cardinality(query_words \cap text_words),
                        Cardinality(query_words)>>>>
    ELSE <<FALSE, similarity>>

fuzzy_match(query, text, threshold) ==
    IF Contains(Lower(query), Lower(text)) THEN <<TRUE, <<1, 1>>>>
    ELSE FuzzyDecision(threshold, Search_calculate_similarity(query, text),
                       SeqToSet(Search_extract_keywords(query, 2)),
                       SeqToSet(Search_extract_keywords(text, 2)))

(***************************************************************************)
(* The three search modes (search_tools.py 242-389): the news items of one *)
(* day that match, in the iteration order of the day's entries.            *)
(* similarity_score is in units of 1/10000.  The url fields that           *)
(* include_url adds are not modelled.                                      *)
(***************************************************************************)
NewsItem(e, date, score) ==
    [title |-> e.title, platform |-> e.platform,
     platform_name |-> PlatformName(e.platform),
     date |-> date, similarity_score |-> score,
     ranks |-> e.ranks, count |-> Len(e.ranks), hasCount |-> TRUE,
     rank |-> IF Len(e.ranks) > 0 THEN e.ranks[1] ELSE 999]

search_by_keyword_mode(query, items, date) ==
    LET Hit(e) == Contains(Lower(query), Lower(e.title))
        hits   == SelectSeq(items, Hit)
    IN  [i \in 1..Len(hits) |-> NewsItem(hits[i], date, 10000)]

\* the items whose _fuzzy_match is positive, with its score rounded to 4 places
FuzzyItems(scored, date) ==
    LET Hit(x) == x.m[1]
        hits   == SelectSeq(scored, Hit)
    IN  [i \in 1..Len(hits) |-> NewsItem(hits[i].e, date, Round4(hits[i].m[2]))]

search_by_fuzzy_mode(query, items, date, threshold) ==
    FuzzyItems([i \in 1..Len(items) |->
                   [e |-> items[i], m |-> fuzzy_match(query, items[i].title, threshold)]],
               date)

search_by_entity_mode(query, items, date) ==
    LET Hit(e) == Contains(query, e.title)
        hits   == SelectSeq(items, Hit)
    IN  [i \in 1..Len(hits) |-> NewsItem(hits[i], date, 10000)]

\* list.sort(key=..., reverse=True): descending and stable; Gt(x, y) says that
\* the key of x is greater than the key of y
SortedAscending(s, Gt(_, _)) ==
    LET n == Len(s)
        Pos(i) == 1 + Cardinality({j \in 1..n :
                        Gt(s[i], s[j]) \/ (~Gt(s[j], s[i]) /\ j < i)})
    IN  [k \in 1..n |-> s[CHOOSE i \in 1..n : Pos(i) = k]]

SortedDescending(s, Gt(_, _)) ==
    LET n == Len(s)
        Pos(i) == 1 + Cardinality({j \in 1..n :
                        Gt(s[j], s[i]) \/ (~Gt(s[i], s[j]) /\ j < i)})
    IN  [k \in 1..n |-> s[CHOOSE i \in 1..n : Pos(i) = k]]

RECURSIVE Flatten(_)
Flatten(ss) == IF ss = << >> THEN << >> ELSE Head(ss) \o Flatten(Tail(ss))

(***************************************************************************)
(* SearchTools.search_news_unified (search_tools.py 38-240).               *)
(***************************************************************************)
SearchModes == {"keyword", "fuzzy", "entity"}

SortKeys == {"relevance", "weight", "date"}

\* validate_limit(limit, default): a positive limit, else InvalidParameterError
LimitOk(limit) == limit >= 1

\* max(0.0, min(1.0, threshold)), in hundredths
ClampThreshold(threshold) == Max2(0, Min2(100, threshold))

GtRelevance(x, y) == x.similarity_score > y.similarity_score

GtWeight(x, y) == RatLess(calculate_news_weight(y), calculate_news_weight(x))

GtDate(x, y) == x.date > y.date

\* the sorts without reverse=True
SortMatchesAscending(all_matches, sort_by) ==
    IF sort_by = "relevance" THEN SortedAscending(all_matches, GtRelevance)
    ELSE IF sort_by = "weight" THEN SortedAscending(all_matches, GtWeight)
    ELSE SortedAscending(all_matches, GtDate)

SortMatches(all_matches, sort_by) ==
    IF sort_by = "relevance" THEN SortedDescending(all_matches, GtRelevance)
    ELSE IF sort_by = "weight" THEN SortedDescending(all_matches, GtWeight)
    ELSE SortedDescending(all_matches, GtDate)

DayMatches(g, args, threshold) ==
    IF ~g.found THEN << >>
    ELSE IF args.search_mode = "keyword"
         THEN search_by_keyword_mode(args.query, g.items, g.date)
    ELSE IF args.search_mode = "fuzzy"
         THEN search_by_fuzzy_mode(args.query, g.items, g.date, threshold)
    ELSE search_by_entity_mode(args.query, g.items, g.date)

\* lines 186-219: sort, truncate, build the envelope
SearchRanked(args, log, start_date, end_date, all_matches, results) ==
    Return(Success([results |-> results,
                    summary |-> [total_found |-> Len(all_matches),
                                 returned_count |-> Len(results),
                                 requested_limit |-> args.limit,
                                 sort_by |-> args.sort_by],
                    start |-> start_date, end |-> end_date]), log)

\* lines 156-184: without any match the available range is looked up and an
\* empty result returned
SearchMatched(args, log, start_date, end_date, all_matches) ==
    IF all_matches = << >>
    THEN Return(Success([results |-> << >>, total |-> 0,
                         start |-> start_date, end |-> end_date]),
                log \o <<RangeCall>>)
    ELSE SearchRanked(args, log, start_date, end_date, all_matches,
                      FirstN(SortMatches(all_matches, args.sort_by), args.limit))

\* lines 123-154: the day loop
SearchScanned(args, pre, start_date, end_date, scan) ==
    IF scan.exc THEN RaiseOther(pre \o scan.log)
    ELSE SearchMatched(args, pre \o scan.log, start_date, end_date,
                       Flatten([i \in 1..Len(scan.got) |->
                                   DayMatches(scan.got[i], args,
                                              ClampThreshold(args.threshold))]))

\* the default date taken from the wall clock instead of the repository
SearchDatesToday(st, args, pre, avail) ==
    IF ~args.date_range.given /\ ~avail.has
    THEN Return(Failure("NO_DATA_AVAILABLE"), pre)
    ELSE SearchScanned(args, pre, StartOf(args.date_range, Today),
                       EndOf(args.date_range, Today),
                       ScanDays(st, StartOf(args.date_range, Today),
                                EndOf(args.date_range, Today),
                                args.platforms, args.fault))

\* lines 100-121: the dates to search
SearchDates(st, args, pre, avail) ==
    IF ~args.date_range.given /\ ~avail.has
    THEN Return(Failure("NO_DATA_AVAILABLE"), pre)
    ELSE SearchScanned(args, pre, StartOf(args.date_range, avail.latest),
                       EndOf(args.date_range, avail.latest),
                       ScanDays(st, StartOf(args.date_range, avail.latest),
                                EndOf(args.date_range, avail.latest),
                                args.platforms, args.fault))

\* sort_by checked only after the dates to search were determined
search_news_unified_LateCheck(st, args) ==
    IF ~KeywordOk(args.query) THEN RaiseMCP("INVALID_PARAMETER", << >>)
    ELSE IF args.search_mode \notin SearchModes THEN RaiseMCP("INVALID_PARAMETER", << >>)
    ELSE IF ~LimitOk(args.limit) THEN RaiseMCP("INVALID_PARAMETER", << >>)
    ELSE IF args.date_range.given /\ ~DateRangeOk(args.date_range)
    THEN RaiseMCP("INVALID_PARAMETER", << >>)
    ELSE IF args.sort_by \notin SortKeys
    THEN RaiseMCP("INVALID_PARAMETER",
                  IF args.date_range.given THEN << >> ELSE <<RangeCall>>)
    ELSE SearchDates(st, args, IF args.date_range.given THEN << >> ELSE <<RangeCall>>,
                     get_available_date_range(st))

search_news_unified(st, args) ==
    IF ~KeywordOk(args.query) THEN RaiseMCP("INVALID_PARAMETER", << >>)
    ELSE IF args.search_mode \notin SearchModes THEN RaiseMCP("INVALID_PARAMETER", << >>)
    ELSE IF args.sort_by \notin SortKeys THEN RaiseMCP("INVALID_PARAMETER", << >>)
    ELSE IF ~LimitOk(args.limit) THEN RaiseMCP("INVALID_PARAMETER", << >>)
    ELSE IF args.date_range.given /\ ~DateRangeOk(args.date_range)
    THEN RaiseMCP("INVALID_PARAMETER", << >>)
    ELSE SearchDates(st, args, IF args.date_range.given THEN << >> ELSE <<RangeCall>>,
                     get_available_date_range(st))

(***************************************************************************)
(* AnalyticsTools.analyze_sentiment (analytics.py 631-816).  topic = << >> *)
(* is topic=None.  A news item holds the rank list of the repository entry *)
(* it was made from (info.get("ranks", []) is that list, not a copy), so   *)
(* existing["ranks"].extend(...) of the de-duplication extends the list of *)
(* the entry of the first day the (platform, title) was seen on.  ai_prompt*)
(* is text built from news_sample and is not modelled.                     *)
(***************************************************************************)
SentimentItem(e, date) ==
    [platform |-> PlatformName(e.platform), title |-> e.title,
     ranks |-> e.ranks, count |-> Len(e.ranks), hasCount |-> TRUE, date |-> date]

SentimentDayItems(g, topic) ==
    IF ~g.found THEN << >>
    ELSE LET Hit(e) == topic = << >> \/ Contains(Lower(topic), Lower(e.title))
             hits   == SelectSeq(g.items, Hit)
         IN  [i \in 1..Len(hits) |-> SentimentItem(hits[i], g.date)]

SameNews(x, y) == x.platform = y.platform /\ x.title = y.title

\* the merge with item["ranks"] + existing["ranks"]
RECURSIVE DeduplicateNewestFirst(_, _)
DeduplicateNewestFirst(all_news_items, unique_news) ==
    IF all_news_items = << >> THEN unique_news
    ELSE LET item == Head(all_news_items)
             seen == {i \in 1..Len(unique_news) : SameNews(unique_news[i], item)}
         IN  IF seen = {}
             THEN DeduplicateNewestFirst(Tail(all_news_items), Append(unique_news, item))
             ELSE DeduplicateNewestFirst(Tail(all_news_items),
                     [i \in 1..Len(unique_news) |->
                         IF i \in seen
                         THEN [unique_news[i] EXCEPT
                                 !.ranks = item.ranks \o unique_news[i].ranks,
                                 !.count = Len(item.ranks \o unique_news[i].ranks)]
                         ELSE unique_news[i]])

\* unique_news: the first item of every key, its ranks extended by the ranks
\* of the later items of the key, in the order of all_news_items
RECURSIVE Deduplicate(_, _)
Deduplicate(all_news_items, unique_news) ==
    IF all_news_items = << >> THEN unique_news
    ELSE LET item == Head(all_news_items)
             seen == {i \in 1..Len(unique_news) : SameNews(unique_news[i], item)}
         IN  IF seen = {}
             THEN Deduplicate(Tail(all_news_items), Append(unique_news, item))
             ELSE Deduplicate(Tail(all_news_items),
                     [i \in 1..Len(unique_news) |->
                         IF i \in seen
                         THEN [unique_news[i] EXCEPT
                                 !.ranks = unique_news[i].ranks \o item.ranks,
                                 !.count = Len(unique_news[i].ranks \o item.ranks)]
                         ELSE unique_news[i]])

SentimentScan(st, args) ==
    ScanDays(st, StartOf(args.date_range, Today), EndOf(args.date_range, Today),
             args.platforms, args.fault)

SentimentAllItems(st, args) ==
    LET scan == SentimentScan(st, args)
    IN  Flatten([i \in 1..Len(scan.got) |-> SentimentDayItems(scan.got[i], args.topic)])

SentimentArgsOk(args) ==
    /\ LimitOk(args.limit)
    /\ args.date_range.given => DateRangeOk(args.date_range)

analyze_sentiment(st, args) ==
    IF ~SentimentArgsOk(args) THEN RaiseMCP("INVALID_PARAMETER", << >>)
    ELSE
      LET scan == SentimentScan(st, args)
          all_news_items == SentimentAllItems(st, args)
          deduplicated_news == Deduplicate(all_news_items, << >>)
          sorted == IF args.sort_by_weight
                    THEN SortedDescending(deduplicated_news, GtWeight)
                    ELSE deduplicated_news
          selected_news == FirstN(sorted, args.limit)
      IN  IF scan.exc THEN RaiseOther(scan.log)
          ELSE IF all_news_items = << >> THEN RaiseMCP("DATA_NOT_FOUND", scan.log)
          ELSE Return(Success([summary |->
                                  [total_found |-> Len(deduplicated_news),
                                   returned_count |-> Len(selected_news),
                                   requested_limit |-> args.limit,
                                   duplicates_removed |->
                                       Len(all_news_items) - Len(deduplicated_news)],
                               news_sample |-> selected_news]),
                      scan.log)

\* the repository's objects after the call: the entry an item of unique_news
\* was made from holds the item's (extended) rank list
StoreAfterSentiment(st, args) ==
    LET reached == SentimentArgsOk(args) /\ ~SentimentScan(st, args).exc
        unique  == IF reached THEN Deduplicate(SentimentAllItems(st, args), << >>)
                   ELSE << >>
        Ranks(d, e) ==
            LET from == {i \in 1..Len(unique) :
                            /\ unique[i].date = d
                            /\ unique[i].title = e.title
                            /\ unique[i].platform = PlatformName(e.platform)}
            IN  IF from = {} THEN e.ranks ELSE unique[CHOOSE i \in from : TRUE].ranks
    IN  [d \in Days |->
            [st[d] EXCEPT !.items =
                [i \in 1..Len(st[d].items) |->
                    [st[d].items[i] EXCEPT !.ranks = Ranks(d, st[d].items[i])]]]]

(***************************************************************************)
(* AnalyticsTools._extract_keywords (analytics.py 1923-1949): URLs are     *)
(* removed, every character that is neither \w nor whitespace becomes a    *)
(* blank, the text is split at whitespace; so the words are the maximal    *)
(* runs of word characters.  Its stopword set is the shorter one.          *)
(***************************************************************************)
AnalyticsStopwords == {<<"de">>, <<"yi">>, <<"yi", "ge">>}

Analytics_extract_keywords(title, min_length) ==
    LET words == FindWords(StripUrls(title, 1), 1)
        Keep(w) == Len(w) >= min_length /\ w \notin AnalyticsStopwords
    IN  SelectSeq(words, Keep)

\* read_all_titles_for_date() of today, outside any inner try
ReadToday(st, fault) == read_all_titles_for_date(st, Today, NoFilter, fault)

\* how a body ends when such a read fails
ReadFailure(r, log) ==
    IF r.k = "notfound" THEN RaiseMCP("DATA_NOT_FOUND", log) ELSE RaiseOther(log)

(***************************************************************************)
(* AnalyticsTools.find_similar_news (analytics.py 910-1028).  threshold in *)
(* hundredths, similarity in units of 1/1000 (round(similarity, 3)).       *)
(***************************************************************************)
GtSimilarity(x, y) == x.similarity > y.similarity

\* lines 987-1014: sort, truncate, build the envelope
SimilarRanked(args, log, similar_items, result_items) ==
    IF result_items = << >> THEN RaiseMCP("DATA_NOT_FOUND", log)
    ELSE Return(Success([summary |-> [total_found |-> Len(similar_items),
                                      returned_count |-> Len(result_items),
                                      requested_limit |-> args.limit],
                         similar_news |-> result_items]), log)

\* lines 960-985: the titles other than the reference title, with their similarity
SimilarItems(args, scored) ==
    LET Near(x) == /\ x.e.title # args.reference_title
                   /\ RatLeq(<<args.threshold, 100>>, x.similarity)
        hits == SelectSeq(scored, Near)
    IN  [i \in 1..Len(hits) |->
            [title |-> hits[i].e.title, platform |-> hits[i].e.platform,
             platform_name |-> PlatformName(hits[i].e.platform),
             similarity |-> RoundTo(hits[i].similarity, 1000),
             rank |-> IF Len(hits[i].e.ranks) > 0 THEN hits[i].e.ranks[1] ELSE 0]]

SimilarSorted(args, log, similar_items) ==
    SimilarRanked(args, log, similar_items,
                  FirstN(SortedDescending(similar_items, GtSimilarity), args.limit))

SimilarRead(args, log, r) ==
    IF r.k # "ok" THEN ReadFailure(r, log)
    ELSE SimilarSorted(args, log,
             SimilarItems(args,
                 [i \in 1..Len(r.items) |->
                     [e |-> r.items[i],
                      similarity |-> Analytics_calculate_similarity(
                                         args.reference_title, r.items[i].title)]]))

find_similar_news(st, args) ==
    IF ~KeywordOk(args.reference_title) THEN RaiseMCP("INVALID_PARAMETER", << >>)
    ELSE IF ~(0 <= args.threshold /\ args.threshold <= 100)
    THEN RaiseMCP("INVALID_PARAMETER", << >>)
    ELSE IF ~LimitOk(args.limit) THEN RaiseMCP("INVALID_PARAMETER", << >>)
    ELSE SimilarRead(args, <<ReadCall(Today)>>, ReadToday(st, args.fault))

(***************************************************************************)
(* collections.Counter and the order of str.                               *)
(***************************************************************************)
\* collections.Counter of a list: its keys in the order of their first
\* occurrence, and the count of a key
CounterKeys(s) ==
    LET First(i) == \A j \in 1..(i - 1) : s[j] # s[i]
        firsts   == SelectSeq([i \in 1..Len(s) |-> i], First)
    IN  [k \in 1..Len(firsts) |-> s[firsts[k]]]

CounterCount(s, key) == Cardinality({i \in 1..Len(s) : s[i] = key})

\* the characters of the model in the order of their code points; "yi",
\* "ge", "yi3", "ke" and "de" stand for U+4E00, U+4E2A, U+4EE5, U+53EF, U+7684
CodePoints == <<" ", ",", "/", "1", "2", "3", "4", "5", "6", ":", "A", "I", "[", "]",
                "a", "b", "c", "d", "e", "f", "g", "h", "n", "p", "r", "s", "t", "w",
                "yi", "ge", "yi3", "ke", "de">>

CodePoint(c) == CHOOSE i \in 1..Len(CodePoints) : CodePoints[i] = c

\* Python's <= on str: by the first differing character, else by length
LeqText(x, y) ==
    LET differ == {i \in 1..Min2(Len(x), Len(y)) : x[i] # y[i]}
    IN  IF differ = {} THEN Len(x) <= Len(y)
        ELSE LET i == CHOOSE i \in differ : \A j \in differ : i <= j
             IN  CodePoint(x[i]) < CodePoint(y[i])

(***************************************************************************)
(* The range aggregations compare_platforms (analytics.py 402-524),        *)
(* get_platform_activity_stats (1338-1463) and generate_summary_report     *)
(* (1158-1336).  Of their success payloads the per-platform news counts    *)
(* are modelled.                                                           *)
(***************************************************************************)
AllItems(got) == Flatten([i \in 1..Len(got) |-> got[i].items])

PlatformCounts(got) ==
    LET items == AllItems(got)
        names == {PlatformName(items[i].platform) : i \in 1..Len(items)}
    IN  [n \in names |->
            Cardinality({i \in 1..Len(items) : PlatformName(items[i].platform) = n})]

TopicMentions(got, topic) ==
    LET items == AllItems(got)
        names == {PlatformName(items[i].platform) : i \in 1..Len(items)}
    IN  [n \in names |->
            Cardinality({i \in 1..Len(items) :
                            /\ PlatformName(items[i].platform) = n
                            /\ topic # << >>
                            /\ Contains(Lower(topic), Lower(items[i].title))})]

\* coverage_rate = (topic_mentions / total_news) * 100, rounded to 2 places:
\* a percentage, here in hundredths
CoverageRates(total_news, topic_mentions) ==
    [n \in DOMAIN total_news |->
        IF total_news[n] > 0 THEN Round2(<<topic_mentions[n] * 100, total_news[n]>>)
        ELSE 0]

\* len(stats["unique_titles"])
UniqueTitles(got) ==
    LET items == AllItems(got)
        names == {PlatformName(items[i].platform) : i \in 1..Len(items)}
    IN  [n \in names |->
            Cardinality({items[i].title : i \in {j \in 1..Len(items) :
                                                    PlatformName(items[j].platform) = n}})]

\* stats["top_keywords"].update(keywords): the keywords counted for a platform
\* name, in the order in which the titles are met
PlatformKeywords(items, name) ==
    Flatten([i \in 1..Len(items) |->
                IF PlatformName(items[i].platform) = name
                THEN Analytics_extract_keywords(items[i].title, 2) ELSE << >>])

GtCount(x, y) == x.count > y.count

CountedKeys(keys, s) ==
    [k \in 1..Len(keys) |-> [keyword |-> keys[k], count |-> CounterCount(s, keys[k])]]

\* every key of the Counter, by descending count
MostCommonUncapped(s, n) == SortedDescending(CountedKeys(CounterKeys(s), s), GtCount)

\* Counter(s).most_common(n): by descending count, equal counts in the order
\* of first occurrence
MostCommon(s, n) == FirstN(SortedDescending(CountedKeys(CounterKeys(s), s), GtCount), n)

\* most_common(5) of result_stats, most_common(10) and [:5] of
\* _find_unique_topics
StatsTopKeywords == 5

UniqueTopKeywords == 10

UniqueTopicsMax == 5

KeywordsOf(counted) == {counted[i].keyword : i \in 1..Len(counted)}

TopKeywordSet(s, n) == KeywordsOf(MostCommon(s, n))

\* the texts of a set in ascending order
TextSorted(S) ==
    [k \in 1..Cardinality(S) |->
        CHOOSE x \in S : Cardinality({y \in S : y # x /\ LeqText(y, x)}) = k - 1]

\* list(a_set): the iteration order of a set of str depends on the hash seed
\* of the process; hash_seed picks one of the rotations of the sorted order
SetAsList(S, hash_seed) ==
    LET sorted == TextSorted(S)
    IN  [k \in 1..Len(sorted) |-> sorted[((k - 1 + hash_seed) % Len(sorted)) + 1]]

\* _find_unique_topics(platform_stats) (analytics.py 1965-1996)
find_unique_topics(items, names, hash_seed) ==
    LET Top(n)    == TopKeywordSet(PlatformKeywords(items, n), UniqueTopKeywords)
        Unique(n) == Top(n) \ UNION {Top(m) : m \in names \ {n}}
    IN  [n \in {m \in names : Unique(m) # {}} |->
            FirstN(SetAsList(Unique(n), hash_seed), UniqueTopicsMax)]

PlatformStats(items, names, topic, got, hash_seed) ==
    [total_news     |-> PlatformCounts(got),
     topic_mentions |-> TopicMentions(got, topic),
     unique_titles  |-> UniqueTitles(got),
     coverage_rate  |-> CoverageRates(PlatformCounts(got), TopicMentions(got, topic)),
     top_keywords   |-> [n \in names |->
                            MostCommon(PlatformKeywords(items, n), StatsTopKeywords)],
     unique_topics  |-> find_unique_topics(items, names, hash_seed)]

compare_platforms(st, args) ==
    IF args.topic # << >> /\ ~KeywordOk(args.topic)
    THEN RaiseMCP("INVALID_PARAMETER", << >>)
    ELSE IF args.date_range.given /\ ~DateRangeOk(args.date_range)
    THEN RaiseMCP("INVALID_PARAMETER", << >>)
    ELSE
      LET scan == ScanDays(st, StartOf(args.date_range, Today),
                           EndOf(args.date_range, Today), NoFilter, args.fault)
      IN  IF scan.exc THEN RaiseOther(scan.log)
          ELSE Return(Success(PlatformStats(AllItems(scan.got),
                                            DOMAIN PlatformCounts(scan.got),
                                            args.topic, scan.got, args.hash_seed)),
                      scan.log)

get_platform_activity_stats(st, args) ==
    IF args.date_range.given /\ ~DateRangeOk(args.date_range)
    THEN RaiseMCP("INVALID_PARAMETER", << >>)
    ELSE
      LET scan == ScanDays(st, StartOf(args.date_range, Today),
                           EndOf(args.date_range, Today), NoFilter, args.fault)
      IN  IF scan.exc THEN RaiseOther(scan.log)
          ELSE Return(Success([news_count |-> PlatformCounts(scan.got)]), scan.log)

ReportTypes == {"daily", "weekly"}

generate_summary_report(st, args) ==
    IF args.report_type \notin ReportTypes THEN RaiseMCP("INVALID_PARAMETER", << >>)
    ELSE IF args.date_range.given /\ ~DateRangeOk(args.date_range)
    THEN RaiseMCP("INVALID_PARAMETER", << >>)
    ELSE
      LET start_date == StartOf(args.date_range,
                                IF args.report_type = "daily" THEN Today ELSE Today - 6)
          scan == ScanDays(st, start_date, EndOf(args.date_range, Today),
                           NoFilter, args.fault)
      IN  IF scan.exc THEN RaiseOther(scan.log)
          ELSE Return(Success([total_news |-> Len(AllItems(scan.got)),
                               platforms |-> PlatformCounts(scan.got)]), scan.log)

(***************************************************************************)
(* AnalyticsTools.search_by_entity (analytics.py 1030-1156).  entity_type  *)
(* "" is None.  entity_context counts the keywords of the matching titles, *)
(* the entity's own key is deleted, related_keywords is most_common(10).   *)
(***************************************************************************)
EntityTypes == {"person", "location", "organization"}

GtRank(x, y) == x.rank > y.rank

EntityTopKeywords == 10

\* entity_context as the list of the keywords counted, without the entity
EntityContext(hits, entity) ==
    LET NotEntity(w) == w # entity
    IN  SelectSeq(Flatten([i \in 1..Len(hits) |->
                              Analytics_extract_keywords(hits[i].title, 2)]),
                  NotEntity)

EntityItem(e) ==
    [title |-> e.title, platform |-> e.platform,
     platform_name |-> PlatformName(e.platform),
     ranks |-> e.ranks, count |-> Len(e.ranks), hasCount |-> TRUE,
     rank |-> IF Len(e.ranks) > 0 THEN e.ranks[1] ELSE 999]

search_by_entity(st, args) ==
    IF ~KeywordOk(args.entity) THEN RaiseMCP("INVALID_PARAMETER", << >>)
    ELSE IF ~LimitOk(args.limit) THEN RaiseMCP("INVALID_PARAMETER", << >>)
    ELSE IF args.entity_type # "" /\ args.entity_type \notin EntityTypes
    THEN RaiseMCP("INVALID_PARAMETER", << >>)
    ELSE
      LET r == ReadToday(st, args.fault)
          log == <<ReadCall(Today)>>
          Hit(e) == Contains(args.entity, e.title)
          hits == SelectSeq(r.items, Hit)
          related_news == [i \in 1..Len(hits) |-> EntityItem(hits[i])]
          sorted == IF args.sort_by_weight
                    THEN SortedDescending(related_news, GtWeight)
                    ELSE SortedAscending(related_news, GtRank)
          result_news == FirstN(sorted, args.limit)
      IN  IF r.k # "ok" THEN ReadFailure(r, log)
          ELSE IF related_news = << >> THEN RaiseMCP("DATA_NOT_FOUND", log)
          ELSE Return(Success([related_news |-> result_news,
                               total_found |-> Len(related_news),
                               returned_count |-> Len(result_news),
                               related_keywords |->
                                   MostCommon(EntityContext(hits, args.entity),
                                              EntityTopKeywords)]), log)

(***************************************************************************)
(* The operations on today's data: analyze_keyword_cooccurrence            *)
(* (analytics.py 526-629), detect_viral_topics (1623-1757) and             *)
(* predict_trending_topics (1759-1919).  Their success payloads are the    *)
(* keywords of today's titles.                                             *)
(***************************************************************************)
TodayKeywords(items) ==
    Flatten([i \in 1..Len(items) |-> Analytics_extract_keywords(items[i].title, 2)])

\* validate_top_n(top_n, default): a positive number, else InvalidParameterError
TopNOk(top_n) == top_n >= 1


(***************************************************************************)
(* AnalyticsTools.analyze_keyword_cooccurrence (analytics.py 526-629).     *)
(***************************************************************************)
\* the pair as the two loops meet it, without sorted()
PairAsMet(kw1, kw2) == <<kw1, kw2>>

\* pair = tuple(sorted([kw1, kw2]))
SortedPair(kw1, kw2) == IF LeqText(kw1, kw2) THEN <<kw1, kw2>> ELSE <<kw2, kw1>>

\* for i, kw1 in enumerate(keywords): for kw2 in keywords[i+1:]: the pairs
\* counted for one title, in the order of the two loops
TitlePairs(keywords) ==
    Flatten([i \in 1..Len(keywords) |->
                [j \in 1..(Len(keywords) - i) |-> SortedPair(keywords[i], keywords[i + j])]])

\* every increment of the Counter cooccurrence, in order
CooccurrenceIncrements(items) ==
    Flatten([n \in 1..Len(items) |->
                TitlePairs(Analytics_extract_keywords(items[n].title, 2))])

\* titles_with_both[:3]: keyword_titles[kw1] holds a title once for every
\* occurrence of kw1 among its keywords
SampleTitles(items, kw1, kw2) ==
    LET Both(e) == kw2 \in SeqToSet(Analytics_extract_keywords(e.title, 2))
        hits    == SelectSeq(items, Both)
    IN  FirstN(Flatten([n \in 1..Len(hits) |->
                    [m \in 1..CounterCount(Analytics_extract_keywords(hits[n].title, 2), kw1)
                        |-> hits[n].title]]), 3)

GtCooccurrence(x, y) == x.cooccurrence_count > y.cooccurrence_count

\* filtered_pairs, sorted(..., reverse=True)[:top_n], result_pairs
CooccurrencePairs(items, increments, min_frequency, top_n) ==
    LET Frequent(pair) == CounterCount(increments, pair) >= min_frequency
        filtered_pairs == SelectSeq(CounterKeys(increments), Frequent)
        result_pairs   ==
            [n \in 1..Len(filtered_pairs) |->
                [keyword1 |-> filtered_pairs[n][1],
                 keyword2 |-> filtered_pairs[n][2],
                 cooccurrence_count |-> CounterCount(increments, filtered_pairs[n]),
                 sample_titles |-> SampleTitles(items, filtered_pairs[n][1],
                                                filtered_pairs[n][2])]]
    IN  FirstN(SortedDescending(result_pairs, GtCooccurrence), top_n)

Cooccurrence(result_pairs, min_frequency, log) ==
    Return(Success([cooccurrence_pairs |-> result_pairs,
                    total_pairs        |-> Len(result_pairs),
                    min_frequency      |-> min_frequency]), log)

analyze_keyword_cooccurrence(st, args) ==
    IF ~LimitOk(args.min_frequency) THEN RaiseMCP("INVALID_PARAMETER", << >>)
    ELSE IF ~TopNOk(args.top_n) THEN RaiseMCP("INVALID_PARAMETER", << >>)
    ELSE
      LET r == ReadToday(st, args.fault)
          log == <<ReadCall(Today)>>
      IN  IF r.k # "ok" THEN ReadFailure(r, log)
          ELSE Cooccurrence(CooccurrencePairs(r.items, CooccurrenceIncrements(r.items),
                                              args.min_frequency, args.top_n),
                            args.min_frequency, log)

\* a new keyword counted as viral only above 5 occurrences
IsViralAboveFive(current_count, previous_count, threshold) ==
    IF previous_count = 0 THEN current_count > 5
    ELSE current_count * 100 >= threshold * previous_count

\* analytics.py 1699-1710; threshold in hundredths
IsViral(current_count, previous_count, threshold) ==
    IF previous_count = 0 THEN current_count >= 5
    ELSE current_count * 100 >= threshold * previous_count

\* an entry of viral_topics (analytics.py 1712-1720).  new stands for the
\* growth_rate "新话题" (previous_count = 0); growth_rate is in hundredths
\* (round(growth_rate, 2)) and 0 for a new topic; alert_level "high" is 高,
\* "medium" 中.  sample_titles is not modelled.
ViralTopic(keyword, current_count, previous_count, threshold) ==
    [keyword        |-> keyword,
     current_count  |-> current_count,
     previous_count |-> previous_count,
     new            |-> previous_count = 0,
     growth_rate    |-> IF previous_count = 0 THEN 0
                        ELSE Round2(<<current_count, previous_count>>),
     alert_level    |-> IF \/ previous_count = 0
                           \/ current_count * 100 > 2 * threshold * previous_count
                        THEN "high" ELSE "medium"]

ViralTopics(current_keywords, previous_keywords, threshold) ==
    LET Viral(k) == IsViral(CounterCount(current_keywords, k),
                            CounterCount(previous_keywords, k), threshold)
        hits == SelectSeq(CounterKeys(current_keywords), Viral)
    IN  [i \in 1..Len(hits) |->
            ViralTopic(hits[i], CounterCount(current_keywords, hits[i]),
                       CounterCount(previous_keywords, hits[i]), threshold)]

\* key=lambda x: x["current_count"] if x["growth_rate"] == "新话题" else x["growth_rate"]
ViralKey(x) == IF x.new THEN x.current_count * 100 ELSE x.growth_rate

GtViral(x, y) == ViralKey(x) > ViralKey(y)

ViralSorted(viral_topics, log) ==
    Return(Success([viral_topics |-> viral_topics,
                    total_detected |-> Len(viral_topics)]), log)

ViralDetected(current_keywords, previous_keywords, threshold, log) ==
    ViralSorted(SortedDescending(ViralTopics(current_keywords, previous_keywords,
                                             threshold), GtViral), log)

\* threshold in hundredths
detect_viral_topics(st, args) ==
    IF args.threshold < 100 THEN RaiseMCP("INVALID_PARAMETER", << >>)
    ELSE IF ~LimitOk(args.time_window) THEN RaiseMCP("INVALID_PARAMETER", << >>)
    ELSE
      LET current  == ReadToday(st, args.fault)
          previous == read_all_titles_for_date(st, Today - 1, NoFilter, args.fault)
      IN  IF current.k # "ok" THEN ReadFailure(current, <<ReadCall(Today)>>)
          ELSE IF previous.k = "exc"
               THEN RaiseOther(<<ReadCall(Today), ReadCall(Today - 1)>>)
          ELSE ViralDetected(TodayKeywords(current.items), TodayKeywords(previous.items),
                             args.threshold, <<ReadCall(Today), ReadCall(Today - 1)>>)

\* keyword_trends[keyword]: the keyword's count on every day, of those read,
\* on which it occurs; day_keywords holds the keywords of each day read
TrendOf(day_keywords, keyword) ==
    LET counts == [i \in 1..Len(day_keywords) |-> CounterCount(day_keywords[i], keyword)]
        Pos(c) == c > 0
    IN  SelectSeq(counts, Pos)

\* growth_rate of a history of 2 or more points (analytics.py 1855-1864)
GrowthOf(trend_data) ==
    LET recent_value   == trend_data[Len(trend_data)]
        previous_value == trend_data[Len(trend_data) - 1]
    IN  IF previous_value = 0 THEN <<1, 1>>
        ELSE <<recent_value - previous_value, previous_value>>

\* a history that is not skipped and grows by more than 30%
IsRising(trend_data) ==
    /\ Len(trend_data) >= 2
    /\ trend_data[Len(trend_data) - 1] = 0 => trend_data[Len(trend_data)] >= 3
    /\ RatLess(<<3, 10>>, GrowthOf(trend_data))

\* confidence in hundredths (analytics.py 1869-1877)
ConfidenceOf(trend_data) ==
    IF Len(trend_data) >= 3
    THEN IF \A i \in 1..(Len(trend_data) - 1) : trend_data[i] <= trend_data[i + 1]
         THEN 90 ELSE 70
    ELSE 60

\* an entry of predicted_topics; growth_rate is the percentage in hundredths
\* (round(growth_rate * 100, 2)); sample_titles is not modelled
PredictedTopic(keyword, trend_data) ==
    [keyword       |-> keyword,
     current_count |-> trend_data[Len(trend_data)],
     growth_rate   |-> Round2(<<GrowthOf(trend_data)[1] * 100, GrowthOf(trend_data)[2]>>),
     confidence    |-> ConfidenceOf(trend_data),
     trend_data    |-> trend_data]

PredictedTopics(day_keywords, confidence_threshold) ==
    LET Keep(k) == /\ IsRising(TrendOf(day_keywords, k))
                   /\ ConfidenceOf(TrendOf(day_keywords, k)) >= confidence_threshold
        hits == SelectSeq(CounterKeys(Flatten(day_keywords)), Keep)
    IN  [i \in 1..Len(hits) |-> PredictedTopic(hits[i], TrendOf(day_keywords, hits[i]))]

\* key=lambda x: (x["confidence"], x["growth_rate"])
GtPredicted(x, y) ==
    \/ x.confidence > y.confidence
    \/ x.confidence = y.confidence /\ x.growth_rate > y.growth_rate

\* predicted_topics[:20]
TopPredicted == 20

PredictedUncapped(predicted_topics, log) ==
    Return(Success([predicted_topics |-> predicted_topics,
                    total_predicted  |-> Len(predicted_topics)]), log)

PredictedCapped(predicted_topics, log) ==
    Return(Success([predicted_topics |-> FirstN(predicted_topics, TopPredicted),
                    total_predicted  |-> Len(predicted_topics)]), log)

DayKeywords(got, today_items) ==
    LET Found(g) == g.found
        days == SelectSeq(got, Found)
    IN  [i \in 1..Len(days) |-> TodayKeywords(days[i].items)]
            \o <<TodayKeywords(today_items)>>

Predicted(got, today_items, confidence_threshold, log) ==
    PredictedCapped(SortedDescending(PredictedTopics(DayKeywords(got, today_items),
                                                     confidence_threshold),
                                     GtPredicted), log)

\* confidence_threshold in hundredths
predict_trending_topics(st, args) ==
    IF ~LimitOk(args.lookahead_hours) THEN RaiseMCP("INVALID_PARAMETER", << >>)
    ELSE IF ~(0 <= args.confidence_threshold /\ args.confidence_threshold <= 100)
    THEN RaiseMCP("INVALID_PARAMETER", << >>)
    ELSE
      LET scan  == ScanDays(st, Today - 3, Today - 1, NoFilter, args.fault)
          today == ReadToday(st, args.fault)
      IN  IF scan.exc THEN RaiseOther(scan.log)
          ELSE IF today.k # "ok" THEN ReadFailure(today, scan.log \o <<ReadCall(Today)>>)
          ELSE Predicted(scan.got, today.items, args.confidence_threshold,
                         scan.log \o <<ReadCall(Today)>>)

(***************************************************************************)
(* SearchTools.search_related_news_history (search_tools.py 494-701).      *)
(* Inside its day loop both DataNotFoundError and any other exception are  *)
(* caught, and the loop goes on.  custom_range = NoRange is a custom preset*)
(* without start_date or end_date.  threshold is in hundredths.            *)
(***************************************************************************)
\* the day loop without "except Exception": the dates after one whose read
\* fails unexpectedly are neither read nor searched
ScanDaysAborting(st, current_date, end_date, fault) ==
    LET dates   == [i \in 1..(end_date - current_date + 1) |-> current_date + i - 1]
        Read(d) == read_all_titles_for_date(st, d, NoFilter, fault)
        Before(d) == \A e \in fault : e < current_date \/ e > d
        tried   == SelectSeq(dates, LAMBDA d : Before(d - 1))
        Ok(d)   == Read(d).k = "ok"
        found   == SelectSeq(tried, Ok)
    IN  [log |-> [i \in 1..Len(tried) |-> ReadCall(tried[i])],
         got |-> [i \in 1..Len(found) |->
                    [date |-> found[i], found |-> TRUE, items |-> Read(found[i]).items]]]

\* the day loop: every date from current_date to end_date is read, and a
\* date whose read fails is skipped
ScanDaysLenient(st, current_date, end_date, fault) ==
    LET dates   == [i \in 1..(end_date - current_date + 1) |-> current_date + i - 1]
        Read(d) == read_all_titles_for_date(st, d, NoFilter, fault)
        Ok(d)   == Read(d).k = "ok"
        found   == SelectSeq(dates, Ok)
    IN  [log |-> [i \in 1..Len(dates) |-> ReadCall(dates[i])],
         got |-> [i \in 1..Len(found) |->
                    [date |-> found[i], found |-> TRUE, items |-> Read(found[i]).items]]]

TimePresets == {"yesterday", "last_week", "last_month", "custom"}

\* the presets counted from today inclusive
PresetStartFromToday(time_preset, custom_range) ==
    CASE time_preset = "yesterday"  -> Today - 1
      [] time_preset = "last_week"  -> Today - 6
      [] time_preset = "last_month" -> Today - 29
      [] OTHER -> custom_range.start

PresetStart(time_preset, custom_range) ==
    CASE time_preset = "yesterday"  -> Today - 1
      [] time_preset = "last_week"  -> Today - 7
      [] time_preset = "last_month" -> Today - 30
      [] OTHER -> custom_range.start

PresetEnd(time_preset, custom_range) ==
    IF time_preset = "custom" THEN custom_range.end ELSE Today - 1

(***************************************************************************)
(* SearchTools._calculate_keyword_overlap (search_tools.py 468-492) as a   *)
(* function of two keyword lists; the result is an exact fraction.         *)
(***************************************************************************)
calculate_keyword_overlap_OfFirst(keywords1, keywords2) ==
    IF keywords1 = << >> \/ keywords2 = << >> THEN <<0, 1>>
    ELSE <<Cardinality(SeqToSet(keywords1) \cap SeqToSet(keywords2)),
           Cardinality(SeqToSet(keywords1))>>

calculate_keyword_overlap(keywords1, keywords2) ==
    IF keywords1 = << >> \/ keywords2 = << >> THEN <<0, 1>>
    ELSE LET set1 == SeqToSet(keywords1)
             set2 == SeqToSet(keywords2)
             intersection == Cardinality(set1 \cap set2)
             union == Cardinality(set1 \cup set2)
         IN  IF union = 0 THEN <<0, 1>> ELSE <<intersection, union>>

\* the two scores added without their weights
CombinedScoreUnweighted(keyword_overlap, title_similarity) ==
    <<keyword_overlap[1] * title_similarity[2] + title_similarity[1] * keyword_overlap[2],
      keyword_overlap[2] * title_similarity[2]>>

\* combined_score = keyword_overlap * 0.7 + title_similarity * 0.3
CombinedScore(keyword_overlap, title_similarity) ==
    <<7 * keyword_overlap[1] * title_similarity[2]
          + 3 * title_similarity[1] * keyword_overlap[2],
      10 * keyword_overlap[2] * title_similarity[2]>>

\* the scores in units of 1/10000 (round(x, 4)); common_keywords and the url
\* fields are not modelled
RelatedNews(e, date, keyword_overlap, title_similarity) ==
    [title |-> e.title, platform |-> e.platform,
     platform_name |-> PlatformName(e.platform), date |-> date,
     similarity_score |-> Round4(CombinedScore(keyword_overlap, title_similarity)),
     keyword_overlap  |-> Round4(keyword_overlap),
     text_similarity  |-> Round4(title_similarity),
     rank |-> IF Len(e.ranks) > 0 THEN e.ranks[1] ELSE 0]

RelatedScored(items, reference_text, reference_keywords) ==
    [i \in 1..Len(items) |->
        [e |-> items[i],
         sim |-> Search_calculate_similarity(reference_text, items[i].title),
         overlap |-> calculate_keyword_overlap(
                         reference_keywords, Search_extract_keywords(items[i].title, 2))]]

RelatedOfDay(scored, date, threshold) ==
    LET Near(x) == RatLeq(<<threshold, 100>>, CombinedScore(x.overlap, x.sim))
        hits == SelectSeq(scored, Near)
    IN  [i \in 1..Len(hits) |-> RelatedNews(hits[i].e, date, hits[i].overlap, hits[i].sim)]

RelatedAll(got, reference_text, reference_keywords, threshold) ==
    Flatten([i \in 1..Len(got) |->
                RelatedOfDay(RelatedScored(got[i].items, reference_text,
                                           reference_keywords),
                             got[i].date, threshold)])

GtRelated(x, y) == x.similarity_score > y.similarity_score

RelatedResult(all_related_news, limit, search_start, search_end, scan) ==
    Return(Success([start |-> search_start, end |-> search_end,
                    searched |-> [i \in 1..Len(scan.got) |-> scan.got[i].date],
                    total_found |-> Len(all_related_news),
                    results |-> FirstN(SortedDescending(all_related_news, GtRelated),
                                       limit)]),
           scan.log)

RelatedScanned(args, search_start, search_end, scan) ==
    RelatedResult(RelatedAll(scan.got, args.reference_text,
                             Search_extract_keywords(args.reference_text, 2),
                             Max2(0, Min2(100, args.threshold))),
                  args.limit, search_start, search_end, scan)

search_related_news_history(st, args) ==
    IF ~KeywordOk(args.reference_text) THEN RaiseMCP("INVALID_PARAMETER", << >>)
    ELSE IF ~LimitOk(args.limit) THEN RaiseMCP("INVALID_PARAMETER", << >>)
    ELSE IF args.time_preset \notin TimePresets THEN RaiseMCP("INVALID_PARAMETER", << >>)
    ELSE IF args.time_preset = "custom" /\ ~args.custom_range.given
    THEN RaiseMCP("INVALID_PARAMETER", << >>)
    ELSE IF Search_extract_keywords(args.reference_text, 2) = << >>
    THEN RaiseMCP("INVALID_PARAMETER", << >>)
    ELSE
      RelatedScanned(args, PresetStart(args.time_preset, args.custom_range),
                     PresetEnd(args.time_preset, args.custom_range),
                     ScanDaysLenient(st, PresetStart(args.time_preset, args.custom_range),
                                     PresetEnd(args.time_preset, args.custom_range),
                                     args.fault))

(***************************************************************************)
(* The unified dispatchers: analyze_data_insights_unified                  *)
(* (analytics.py 89-154) and analyze_topic_trend_unified (156-242).  They  *)
(* return the envelope of the method they dispatch to.                     *)
(***************************************************************************)
InsightTypes == {"platform_compare", "platform_activity", "keyword_cooccur"}

analyze_data_insights_unified(st, args) ==
    IF args.insight_type \notin InsightTypes THEN RaiseMCP("INVALID_PARAMETER", << >>)
    ELSE
      LET inner == CASE args.insight_type = "platform_compare" ->
                            compare_platforms(st, args)
                     [] args.insight_type = "platform_activity" ->
                            get_platform_activity_stats(st, args)
                     [] OTHER -> analyze_keyword_cooccurrence(st, args)
      IN  Return(TryExcept(inner).res, inner.log)

AnalysisTypes == {"trend", "lifecycle", "viral", "predict"}

analyze_topic_trend_unified(st, args) ==
    IF ~KeywordOk(args.topic) THEN RaiseMCP("INVALID_PARAMETER", << >>)
    ELSE IF args.analysis_type \notin AnalysisTypes
    THEN RaiseMCP("INVALID_PARAMETER", << >>)
    ELSE
      LET inner == CASE args.analysis_type = "trend" ->
                            get_topic_trend_analysis(st, args)
                     [] args.analysis_type = "lifecycle" ->
                            analyze_topic_lifecycle(st, args)
                     [] args.analysis_type = "viral" -> detect_viral_topics(st, args)
                     [] OTHER -> predict_trending_topics(st, args)
      IN  Return(TryExcept(inner).res, inner.log)

(***************************************************************************)
(* The callers' inputs.  Every operation is called with every date range   *)
(* and every repository fault under its other arguments' usual values, and *)
(* with every value of its other arguments under one date range.           *)
(***************************************************************************)
MaxLimit == 2

\* the longest rank history a run lets the repository hold
MaxHistory == 3

Ranges == {NoRange} \cup {Range(s, e) : s \in QueryDays, e \in QueryDays}

WholeRange == Range(1, MaxDay)

\* days whose read raises an unexpected exception, with the ranges they are tried on
Faulty == {[date_range |-> NoRange, fault |-> {Today}],
           [date_range |-> WholeRange, fault |-> {1}]}

\* every range without fault, and the faults
RangesAndFaults == {[date_range |-> r, fault |-> {}] : r \in Ranges} \cup Faulty

SomeRangesAndFaults ==
    {[date_range |-> r, fault |-> {}] : r \in {NoRange, WholeRange, Range(MaxDay, 1)}}
    \cup Faulty

TodayFaults == {{}, {Today}}

Topics == {QueryAb, << >>}

Limits == 0..MaxLimit

TrendArgs ==
    {[topic |-> QueryAb, granularity |-> "day", date_range |-> x.date_range,
      fault |-> x.fault] : x \in RangesAndFaults}
    \cup {[topic |-> t, granularity |-> g, date_range |-> WholeRange, fault |-> {}] :
            t \in Topics, g \in {"day", "hour"}}

LifecycleArgs ==
    {[topic |-> QueryAb, date_range |-> x.date_range, fault |-> x.fault] :
        x \in RangesAndFaults}
    \cup {[topic |-> << >>, date_range |-> WholeRange, fault |-> {}]}

CompareArgs ==
    {[topic |-> QueryAb, date_range |-> x.date_range, hash_seed |-> 0,
      fault |-> x.fault] : x \in SomeRangesAndFaults}
    \cup {[topic |-> << >>, date_range |-> WholeRange, hash_seed |-> h, fault |-> {}] :
            h \in 0..1}

ActivityArgs ==
    {[date_range |-> x.date_range, fault |-> x.fault] : x \in SomeRangesAndFaults}

ReportArgs ==
    {[report_type |-> "daily", date_range |-> x.date_range, fault |-> x.fault] :
        x \in SomeRangesAndFaults}
    \cup {[report_type |-> t, date_range |-> NoRange, fault |-> {}] :
            t \in {"weekly", "monthly"}}

CooccurArgs ==
    {[min_frequency |-> 3, top_n |-> 20, fault |-> f] : f \in TodayFaults}
    \cup {[min_frequency |-> 0, top_n |-> 20, fault |-> {}],
          [min_frequency |-> 3, top_n |-> 0, fault |-> {}]}
    \cup {[min_frequency |-> m, top_n |-> n, fault |-> {}] : m \in {1, 2}, n \in {1, 2, 5}}

ViralArgs ==
    {[threshold |-> 300, time_window |-> 24, fault |-> f] :
        f \in TodayFaults \cup {{Today - 1}}}
    \cup {[threshold |-> 50, time_window |-> 24, fault |-> {}],
          [threshold |-> 300, time_window |-> 0, fault |-> {}]}

PredictArgs ==
    {[lookahead_hours |-> 6, confidence_threshold |-> 70, fault |-> f] :
        f \in TodayFaults \cup {{Today - 1}}}
    \cup {[lookahead_hours |-> 0, confidence_threshold |-> 70, fault |-> {}],
          [lookahead_hours |-> 6, confidence_threshold |-> 150, fault |-> {}],
          [lookahead_hours |-> 6, confidence_threshold |-> 60, fault |-> {}],
          [lookahead_hours |-> 6, confidence_threshold |-> 90, fault |-> {}]}

SimilarArgs ==
    {[reference_title |-> t, threshold |-> th, limit |-> MaxLimit, fault |-> {}] :
        t \in {QueryAb, TitleAb, << >>}, th \in {60, 100, 150}}
    \cup {[reference_title |-> QueryAb, threshold |-> 60, limit |-> l, fault |-> f] :
            l \in Limits, f \in TodayFaults}

EntityArgs ==
    {[entity |-> <<"a">>, entity_type |-> "", limit |-> l, sort_by_weight |-> w,
      fault |-> {}] : l \in Limits, w \in BOOLEAN}
    \cup {[entity |-> e, entity_type |-> t, limit |-> MaxLimit, sort_by_weight |-> TRUE,
           fault |-> {Today}] : e \in {<<"a">>, << >>}, t \in {"person", "animal"}}

SentimentArgs ==
    {[topic |-> t, platforms |-> NoFilter, date_range |-> x.date_range,
      limit |-> MaxLimit, sort_by_weight |-> TRUE, fault |-> x.fault] :
        t \in Topics, x \in SomeRangesAndFaults \cup {[date_range |-> Range(1, 1),
                                                       fault |-> {}]}}
    \cup {[topic |-> << >>, platforms |-> ps, date_range |-> WholeRange, limit |-> l,
           sort_by_weight |-> FALSE, fault |-> {}] :
            ps \in {NoFilter, {"p1"}}, l \in {0, 1}}

SearchArgs ==
    {[query |-> QueryAb, search_mode |-> m, sort_by |-> k, limit |-> l,
      threshold |-> 40, date_range |-> WholeRange, platforms |-> NoFilter,
      fault |-> {}] : m \in SearchModes, k \in SortKeys, l \in 1..MaxLimit}
    \cup {[query |-> QueryAb, search_mode |-> "keyword", sort_by |-> "relevance",
           limit |-> MaxLimit, threshold |-> 60, date_range |-> x.date_range,
           platforms |-> NoFilter, fault |-> x.fault] : x \in RangesAndFaults}
    \cup {[query |-> q, search_mode |-> m, sort_by |-> k, limit |-> MaxLimit,
           threshold |-> 60, date_range |-> NoRange, platforms |-> NoFilter,
           fault |-> {}] :
            q \in Topics, m \in {"keyword", "regex"}, k \in {"date", "rank"}}
    \cup {[query |-> QueryAb, search_mode |-> "fuzzy", sort_by |-> "relevance",
           limit |-> l, threshold |-> 60, date_range |-> WholeRange,
           platforms |-> {"p1"}, fault |-> {}] : l \in Limits}
    \cup {[query |-> q, search_mode |-> m, sort_by |-> "relevance",
           limit |-> MaxLimit, threshold |-> 60, date_range |-> NoRange,
           platforms |-> NoFilter, fault |-> {}] :
            q \in {QueryAb, <<"b">>}, m \in SearchModes}

InsightArgs ==
    {[insight_type |-> i, topic |-> QueryAb, date_range |-> x.date_range,
      min_frequency |-> 3, top_n |-> 20, hash_seed |-> 0, fault |-> x.fault] :
        i \in InsightTypes \cup {"sentiment"},
        x \in {[date_range |-> NoRange, fault |-> {}],
               [date_range |-> Range(MaxDay, 1), fault |-> {Today}]}}

AnalysisArgs ==
    {[topic |-> QueryAb, analysis_type |-> a, date_range |-> NoRange,
      granularity |-> "day", threshold |-> 300, time_window |-> 24,
      lookahead_hours |-> 6, confidence_threshold |-> 70, fault |-> f] :
        a \in AnalysisTypes \cup {"sentiment"}, f \in TodayFaults}
    \cup {[topic |-> t, analysis_type |-> a, date_range |-> WholeRange,
           granularity |-> "hour", threshold |-> 50, time_window |-> 24,
           lookahead_hours |-> 0, confidence_threshold |-> 70, fault |-> {}] :
            t \in Topics, a \in {"trend", "viral", "predict", "sentiment"}}

RelatedArgs ==
    {[reference_text |-> QueryAb, time_preset |-> p, custom_range |-> WholeRange,
      limit |-> MaxLimit, threshold |-> 40, fault |-> f] :
        p \in TimePresets \cup {"tomorrow"}, f \in {{}, {1}}}
    \cup {[reference_text |-> QueryAb \o <<" ", "A", "b">>, time_preset |-> "custom",
           custom_range |-> WholeRange, limit |-> l, threshold |-> th, fault |-> {}] :
            l \in 1..MaxLimit, th \in {20, 120}}
    \cup {[reference_text |-> QueryAb \o <<" ", "A", "b">>, time_preset |-> "custom",
           custom_range |-> WholeRange, limit |-> MaxLimit, threshold |-> 20,
           fault |-> {1}],
          [reference_text |-> TitleAbc, time_preset |-> "custom",
           custom_range |-> WholeRange, limit |-> MaxLimit, threshold |-> 120,
           fault |-> {}]}
    \cup {[reference_text |-> t, time_preset |-> "custom", custom_range |-> r,
           limit |-> l, threshold |-> 40, fault |-> {}] :
            t \in {QueryAb, <<"a">>, << >>}, r \in {NoRange, WholeRange},
            l \in {0, MaxLimit}}

(***************************************************************************)
(* The state machine: a repository and a caller that invokes the public    *)
(* entry points one after the other.  call is the last finished call.      *)
(***************************************************************************)
NoCall == [op |-> "none", args |-> << >>, log |-> << >>, res |-> Failure(""),
           raised |-> FALSE]

Init ==
    /\ store \in Stores
    /\ call = NoCall

Call_get_topic_trend_analysis ==
    \E args \in TrendArgs :
        /\ call' = Finished("get_topic_trend_analysis", args, get_topic_trend_analysis(store, args))
        /\ UNCHANGED store

Call_analyze_topic_lifecycle ==
    \E args \in LifecycleArgs :
        /\ call' = Finished("analyze_topic_lifecycle", args, analyze_topic_lifecycle(store, args))
        /\ UNCHANGED store

Call_compare_platforms ==
    \E args \in CompareArgs :
        /\ call' = Finished("compare_platforms", args, compare_platforms(store, args))
        /\ UNCHANGED store

Call_get_platform_activity_stats ==
    \E args \in ActivityArgs :
        /\ call' = Finished("get_platform_activity_stats", args, get_platform_activity_stats(store, args))
        /\ UNCHANGED store

Call_generate_summary_report ==
    \E args \in ReportArgs :
        /\ call' = Finished("generate_summary_report", args, generate_summary_report(store, args))
        /\ UNCHANGED store

Call_analyze_keyword_cooccurrence ==
    \E args \in CooccurArgs :
        /\ call' = Finished("analyze_keyword_cooccurrence", args, analyze_keyword_cooccurrence(store, args))
        /\ UNCHANGED store

Call_detect_viral_topics ==
    \E args \in ViralArgs :
        /\ call' = Finished("detect_viral_topics", args, detect_viral_topics(store, args))
        /\ UNCHANGED store

Call_predict_trending_topics ==
    \E args \in PredictArgs :
        /\ call' = Finished("predict_trending_topics", args, predict_trending_topics(store, args))
        /\ UNCHANGED store

Call_find_similar_news ==
    \E args \in SimilarArgs :
        /\ call' = Finished("find_similar_news", args, find_similar_news(store, args))
        /\ UNCHANGED store

Call_search_by_entity ==
    \E args \in EntityArgs :
        /\ call' = Finished("search_by_entity", args, search_by_entity(store, args))
        /\ UNCHANGED store

Call_search_news_unified ==
    \E args \in SearchArgs :
        /\ call' = Finished("search_news_unified", args, search_news_unified(store, args))
        /\ UNCHANGED store

Call_search_related_news_history ==
    \E args \in RelatedArgs :
        /\ call' = Finished("search_related_news_history", args, search_related_news_history(store, args))
        /\ UNCHANGED store

Call_analyze_data_insights_unified ==
    \E args \in InsightArgs :
        /\ call' = Finished("analyze_data_insights_unified", args, analyze_data_insights_unified(store, args))
        /\ UNCHANGED store

Call_analyze_topic_trend_unified ==
    \E args \in AnalysisArgs :
        /\ call' = Finished("analyze_topic_trend_unified", args, analyze_topic_trend_unified(store, args))
        /\ UNCHANGED store

\* the rank lists analyze_sentiment extends belong to the repository
Call_analyze_sentiment ==
    \E args \in SentimentArgs :
        LET after == StoreAfterSentiment(store, args)
        IN  /\ \A d \in Days : \A i \in 1..Len(after[d].items) :
                  Len(after[d].items[i].ranks) <= MaxHistory
            /\ call' = Finished("analyze_sentiment", args, analyze_sentiment(store, args))
            /\ store' = after

Next ==
    \/ Call_get_topic_trend_analysis
    \/ Call_analyze_topic_lifecycle
    \/ Call_compare_platforms
    \/ Call_get_platform_activity_stats
    \/ Call_generate_summary_report
    \/ Call_analyze_keyword_cooccurrence
    \/ Call_detect_viral_topics
    \/ Call_predict_trending_topics
    \/ Call_find_similar_news
    \/ Call_search_by_entity
    \/ Call_search_news_unified
    \/ Call_search_related_news_history
    \/ Call_analyze_data_insights_unified
    \/ Call_analyze_topic_trend_unified
    \/ Call_analyze_sentiment

Spec == Init /\ [][Next]_vars

(***************************************************************************)
(* Properties of the entry points (specification Spec).                    *)
(***************************************************************************)
\* the finished call read a day on which the repository raises an unexpected
\* exception
ReadFaultyDay ==
    \E i \in 1..Len(call.log) : \E d \in call.args.fault : call.log[i] = ReadCall(d)

ErrorCodes == {"INVALID_PARAMETER", "DATA_NOT_FOUND", "NO_DATA_AVAILABLE", "INTERNAL_ERROR"}

UnknownTag ==
    \/ /\ call.op = "analyze_data_insights_unified"
       /\ call.args.insight_type \notin {"platform_compare", "platform_activity",
                                         "keyword_cooccur"}
    \/ /\ call.op = "analyze_topic_trend_unified"
       /\ call.args.analysis_type \notin {"trend", "lifecycle", "viral", "predict"}
    \/ /\ call.op = "search_news_unified"
       /\ \/ call.args.search_mode \notin {"keyword", "fuzzy", "entity"}
          \/ call.args.sort_by \notin {"relevance", "weight", "date"}
    \/ /\ call.op = "generate_summary_report"
       /\ call.args.report_type \notin {"daily", "weekly"}
    \/ /\ call.op = "get_topic_trend_analysis"
       /\ call.args.granularity # "day"
    \/ /\ call.op = "search_related_news_history"
       /\ call.args.time_preset \notin {"yesterday", "last_week", "last_month", "custom"}

NoSnapshot(d) == d \notin DOMAIN store \/ ~store[d].present

\* C3: for a date range with start <= end whose days the repository can read,
\* get_topic_trend_analysis and analyze_topic_lifecycle read every day of the
\* range once, in order; the returned series has (end - start) + 1 entries in
\* the order of the days, with count 0 for a day without data; the trend call
\* succeeds, the lifecycle call fails only with DATA_NOT_FOUND.
C3_OneReadPerDayOfRange ==
    (/\ call.op \in {"get_topic_trend_analysis", "analyze_topic_lifecycle"}
     /\ call.args.topic # << >>
     /\ call.op = "get_topic_trend_analysis" => call.args.granularity = "day"
     /\ call.args.date_range.given
     /\ call.args.date_range.start <= call.args.date_range.end
     /\ call.args.fault \cap
            (call.args.date_range.start .. call.args.date_range.end) = {})
    =>
    LET start  == call.args.date_range.start
        end    == call.args.date_range.end
        series == IF call.op = "get_topic_trend_analysis"
                  THEN call.res.data.trend_data ELSE call.res.data.lifecycle_data
    IN  /\ call.log = [i \in 1..((end - start) + 1) |-> ReadCall(start + i - 1)]
        /\ call.op = "get_topic_trend_analysis" => call.res.success
        /\ ~call.res.success => call.res.code = "DATA_NOT_FOUND"
        /\ call.res.success =>
              /\ Len(series) = (end - start) + 1
              /\ \A i \in 1..Len(series) :
                    /\ series[i].date = start + i - 1
                    /\ NoSnapshot(start + i - 1) => series[i].count = 0

C3_Witness ==
    /\ call.op = "analyze_topic_lifecycle"
    /\ call.args.date_range = Range(0, MaxDay)
    /\ call.args.fault = {}
    /\ call.res.success
    /\ Len(call.res.data.lifecycle_data) = MaxDay + 1
    /\ call.res.data.lifecycle_data[1].count = 0
    /\ call.res.data.lifecycle_data[MaxDay + 1].count > 0
    /\ call.log[1] = ReadCall(0)

\* C4: no operation changes the data the repository owns: the rank histories
\* it handed out stay as they were.
C4_RepositoryDataUnchanged == [][store' = store]_vars

ValidSearch ==
    /\ call.op = "search_news_unified"
    /\ call.args.query # << >>
    /\ call.args.search_mode \in {"keyword", "fuzzy", "entity"}
    /\ call.args.sort_by \in {"relevance", "weight", "date"}
    /\ call.args.limit >= 1
    /\ call.args.date_range.given => call.args.date_range.start <= call.args.date_range.end

StoredDays == {d \in Days : store[d].present}

LatestStored == CHOOSE d \in StoredDays : \A e \in StoredDays : e <= d

ReadsOf(log) == {i \in 1..Len(log) : log[i] # RangeCall}

SearchedDays ==
    IF call.args.date_range.given
    THEN call.args.date_range.start .. call.args.date_range.end
    ELSE {LatestStored}

AllMatchesOfCall ==
    UNION { SeqToSet(DayMatches([found |-> TRUE, date |-> d,
                                 items |-> <<store[d].items[i]>>],
                                call.args, ClampThreshold(call.args.threshold))) :
              <<d, i>> \in {<<d, i>> \in (SearchedDays \cap StoredDays) \X (1..3) :
                    /\ i <= Len(store[d].items)
                    /\ \/ call.args.platforms = NoFilter
                       \/ store[d].items[i].platform \in call.args.platforms} }

KeyGreater(x, y) ==
    CASE call.args.sort_by = "relevance" -> x.similarity_score > y.similarity_score
      [] call.args.sort_by = "weight" ->
            RatLess(calculate_news_weight(y), calculate_news_weight(x))
      [] OTHER -> x.date > y.date

RankValues == {1, 5, 6, 10, 11}

RankHistories == UNION {[1..n -> RankValues] : n \in 0..MaxRanksLen}

WeightRecords ==
    {[ranks |-> r, hasCount |-> h, count |-> IF h THEN Len(r) ELSE 0] :
        r \in RankHistories, h \in BOOLEAN}

EmptyStore == [d \in Days |-> [present |-> FALSE, items |-> << >>]]

InitWeight ==
    /\ store = EmptyStore
    /\ call \in {[op |-> "record", news_data |-> r, weight |-> <<0, 1>>,
                  before |-> <<0, 1>>, improved |-> FALSE] : r \in WeightRecords}

Weigh ==
    /\ call.op = "record"
    /\ call' = [call EXCEPT !.op = "calculate_news_weight",
                            !.weight = calculate_news_weight(call.news_data)]
    /\ UNCHANGED store

WeighImproved ==
    /\ call.op = "calculate_news_weight"
    /\ \E i \in 1..Len(call.news_data.ranks) : \E rank \in RankValues :
          /\ rank < call.news_data.ranks[i]
          /\ LET ranks == [call.news_data.ranks EXCEPT ![i] = rank]
                 news_data == [call.news_data EXCEPT !.ranks = ranks]
             IN  call' = [op |-> "calculate_news_weight", news_data |-> news_data,
                          weight |-> calculate_news_weight(news_data),
                          before |-> call.weight, improved |-> TRUE]
    /\ UNCHANGED store

NextWeight == Weigh \/ WeighImproved

SpecWeight == InitWeight /\ [][NextWeight]_vars

C8_WeightMonotoneAndBounded ==
    (call.op = "calculate_news_weight" /\ call.news_data.ranks # << >>) =>
        /\ RatLeq(<<0, 1>>, call.weight)
        /\ RatLeq(call.weight, <<100, 1>>)
        /\ call.improved => RatLeq(call.before, call.weight)

C8_Witness ==
    /\ call.op = "calculate_news_weight"
    /\ call.improved
    /\ call.news_data.ranks = <<1, 1, 1>>
    /\ RatLess(call.before, call.weight)

(***************************************************************************)
(* The two _calculate_similarity methods on their own (specification       *)
(* SpecSim): a pair of texts is scored by one of them.                     *)
(***************************************************************************)
Characters == {"a", "A", "b", "c"}

Texts == TextsUpTo(Characters, MaxTextLen)

InitSim ==
    /\ store = EmptyStore
    /\ call \in {[op |-> "texts", text1 |-> t1, text2 |-> t2, score |-> <<0, 1>>] :
                    t1 \in Texts, t2 \in Texts}

Call_Search_calculate_similarity ==
    /\ call.op = "texts"
    /\ call' = [call EXCEPT !.op = "SearchTools",
                            !.score = Search_calculate_similarity(call.text1, call.text2)]
    /\ UNCHANGED store

Call_Analytics_calculate_similarity ==
    /\ call.op = "texts"
    /\ call' = [call EXCEPT !.op = "AnalyticsTools",
                            !.score = Analytics_calculate_similarity(call.text1,
                                                                     call.text2)]
    /\ UNCHANGED store

NextSim == Call_Search_calculate_similarity \/ Call_Analytics_calculate_similarity

SpecSim == InitSim /\ [][NextSim]_vars

\* the score the method of the finished call gives to the texts x, y
SameMethod(x, y) ==
    IF call.op = "SearchTools" THEN Search_calculate_similarity(x, y)
    ELSE Analytics_calculate_similarity(x, y)

C10_CaseInsensitiveInBothMethods ==
    /\ call.op = "SearchTools" =>
          RatEq(call.score, Search_calculate_similarity(Lower(call.text1),
                                                        Lower(call.text2)))
    /\ call.op = "AnalyticsTools" =>
          /\ RatEq(call.score, Analytics_calculate_similarity(Lower(call.text1),
                                                              Lower(call.text2)))
          /\ RatEq(call.score, Search_calculate_similarity(call.text1, call.text2))

(***************************************************************************)
(* _extract_keywords of both classes as a function of its arguments.  The  *)
(* texts are built of fragments so that urls, brackets, stopwords and      *)
(* repeated words occur.                                                   *)
(***************************************************************************)
MaxFragments == 4

Fragments ==
    {<<"a">>, <<"a", " ">>, <<"de">>, <<"yi", "ge">>, <<" ">>, <<"[">>, <<"]">>,
     <<"h", "t", "t", "p", ":", "/", "/">>}

RECURSIVE FragmentTexts(_)
FragmentTexts(n) ==
    IF n = 0 THEN {<< >>}
    ELSE FragmentTexts(n - 1)
            \cup {t \o f : t \in FragmentTexts(n - 1), f \in Fragments}

MinLengths == {1, 2}

InitKeywords ==
    /\ store = EmptyStore
    /\ call \in {[op |-> "text", text |-> t, min_length |-> m, keywords |-> << >>] :
                    t \in FragmentTexts(MaxFragments), m \in MinLengths}

Call_Search_extract_keywords ==
    /\ call.op = "text"
    /\ call' = [call EXCEPT !.op = "SearchTools",
                            !.keywords = Search_extract_keywords(call.text,
                                                                 call.min_length)]
    /\ UNCHANGED store

Call_Analytics_extract_keywords ==
    /\ call.op = "text"
    /\ call' = [call EXCEPT !.op = "AnalyticsTools",
                            !.keywords = Analytics_extract_keywords(call.text,
                                                                    call.min_length)]
    /\ UNCHANGED store

NextKeywords == Call_Search_extract_keywords \/ Call_Analytics_extract_keywords

SpecKeywords == InitKeywords /\ [][NextKeywords]_vars

\* the characters of a, in order, are among the characters of b from i on
RECURSIVE IsSubsequenceFrom(_, _, _)
IsSubsequenceFrom(a, b, i) ==
    IF a = << >> THEN TRUE
    ELSE IF i > Len(b) THEN FALSE
    ELSE IF a[1] = b[i] THEN IsSubsequenceFrom(Tail(a), b, i + 1)
    ELSE IsSubsequenceFrom(a, b, i + 1)

StopwordsOfCall == IF call.op = "SearchTools" THEN SearchStopwords ELSE AnalyticsStopwords

\* the positions of a plain text at which a word (a maximal run of word
\* characters) starts, and the word that starts there
WordStarts(text) ==
    {i \in 1..Len(text) : IsWordChar(text[i]) /\ (i = 1 \/ ~IsWordChar(text[i - 1]))}

WordAt(text, i) ==
    SubSeq(text, i, CHOOSE j \in i..Len(text) :
                        /\ \A k \in i..j : IsWordChar(text[k])
                        /\ (j = Len(text) \/ ~IsWordChar(text[j + 1])))

KeptStarts(text) ==
    {i \in WordStarts(text) : /\ Len(WordAt(text, i)) >= call.min_length
                              /\ WordAt(text, i) \notin StopwordsOfCall}

\* a text without url and (for SearchTools) without bracket: its words are
\* the words of the text as given
PlainText(text) ==
    \A i \in 1..Len(text) :
        /\ text[i] # "h"
        /\ call.op = "SearchTools" => text[i] # "["

\* C11: every keyword is non-empty, at least min_length long and no stopword
\* of its class; the keywords come in the order of the text (their characters,
\* one keyword after the other, are met in the text in this order), and of a
\* text without urls and brackets every word that passes the filter is
\* returned once for each of its occurrences.
C11_KeywordsFilteredInTextOrder ==
    call.op \in {"SearchTools", "AnalyticsTools"} =>
        /\ \A i \in 1..Len(call.keywords) :
              /\ call.keywords[i] # << >>
              /\ Len(call.keywords[i]) >= call.min_length
              /\ call.keywords[i] \notin StopwordsOfCall
        /\ IsSubsequenceFrom(Flatten(call.keywords), call.text, 1)
        /\ PlainText(call.text) =>
              /\ Len(call.keywords) = Cardinality(KeptStarts(call.text))
              /\ \A n \in 1..Len(call.keywords) :
                    \E i \in KeptStarts(call.text) :
                        /\ Cardinality({j \in KeptStarts(call.text) : j < i}) = n - 1
                        /\ call.keywords[n] = WordAt(call.text, i)

C11_Witness ==
    /\ call.op = "SearchTools"
    /\ call.min_length = 1
    /\ call.text = <<"a", " ", "de", " ", "a">>
    /\ call.keywords = <<<<"a">>, <<"a">>>>

(***************************************************************************)
(* SearchTools._calculate_keyword_overlap as a function of two keyword     *)
(* lists.                                                                  *)
(***************************************************************************)
MaxKeywords == 3

KeywordPool == {<<"a", "a">>, <<"a", "b">>, <<"b", "b">>}

KeywordLists == UNION {[1..n -> KeywordPool] : n \in 0..MaxKeywords}

InitOverlap ==
    /\ store = EmptyStore
    /\ call \in {[op |-> "keywords", keywords1 |-> k1, keywords2 |-> k2,
                  overlap |-> <<0, 1>>] : k1 \in KeywordLists, k2 \in KeywordLists}

Call_calculate_keyword_overlap ==
    /\ call.op = "keywords"
    /\ call' = [call EXCEPT !.op = "calculate_keyword_overlap",
                            !.overlap = calculate_keyword_overlap(call.keywords1,
                                                                  call.keywords2)]
    /\ UNCHANGED store

NextOverlap == Call_calculate_keyword_overlap

SpecOverlap == InitOverlap /\ [][NextOverlap]_vars

\* C12: the overlap of two keyword lists is 0.0 when either list is empty,
\* 1.0 for a non-empty list and itself, the same in both orders of the
\* arguments, and otherwise the number of keywords the two lists share
\* divided by the number of distinct keywords of both.
C12_OverlapIsJaccardIndex ==
    call.op = "calculate_keyword_overlap" =>
        LET A == {call.keywords1[i] : i \in 1..Len(call.keywords1)}
            B == {call.keywords2[i] : i \in 1..Len(call.keywords2)}
        IN  /\ (call.keywords1 = << >> \/ call.keywords2 = << >>)
                  => RatEq(call.overlap, <<0, 1>>)
            /\ (call.keywords1 = call.keywords2 /\ call.keywords1 # << >>)
                  => RatEq(call.overlap, <<1, 1>>)
            /\ RatEq(call.overlap,
                     calculate_keyword_overlap(call.keywords2, call.keywords1))
            /\ (call.keywords1 # << >> /\ call.keywords2 # << >>)
                  => /\ call.overlap[2] > 0
                     /\ call.overlap[1] * Cardinality(A \cup B)
                            = Cardinality(A \cap B) * call.overlap[2]

C12_Witness ==
    /\ call.op = "calculate_keyword_overlap"
    /\ call.keywords1 = <<<<"a", "a">>, <<"a", "b">>, <<"a", "a">>>>
    /\ call.keywords2 = <<<<"a", "b">>, <<"b", "b">>>>
    /\ RatEq(call.overlap, <<1, 3>>)

(***************************************************************************)
(* SearchTools._fuzzy_match (search_tools.py 405-440) as a function of its *)
(* arguments; threshold is in hundredths.                                  *)
(***************************************************************************)
FuzzyCharacters == {"a", "A", "b", " "}

FuzzyTexts == TextsUpTo(FuzzyCharacters, MaxTextLen)

FuzzyThresholds == {30, 90}

InitFuzzy ==
    /\ store = EmptyStore
    /\ call \in {[op |-> "texts", query |-> q, text |-> t, threshold |-> th,
                  matched |-> FALSE, score |-> <<0, 1>>] :
                    q \in FuzzyTexts, t \in FuzzyTexts, th \in FuzzyThresholds}

Call_fuzzy_match ==
    /\ call.op = "texts"
    /\ LET r == fuzzy_match(call.query, call.text, call.threshold)
       IN  call' = [call EXCEPT !.op = "fuzzy_match", !.matched = r[1], !.score = r[2]]
    /\ UNCHANGED store

NextFuzzy == Call_fuzzy_match

SpecFuzzy == InitFuzzy /\ [][NextFuzzy]_vars

\* the first tier of the decision that applies to the call: 1 the query is in
\* the text (letter case apart), 2 the similarity reaches the threshold, 3 at
\* least half of the query's keywords are keywords of the text, 4 none
FuzzyTier ==
    LET queryWords == SeqToSet(Search_extract_keywords(call.query, 2))
        textWords  == SeqToSet(Search_extract_keywords(call.text, 2))
    IN  IF Contains(Lower(call.query), Lower(call.text)) THEN 1
        ELSE IF RatLeq(<<call.threshold, 100>>,
                       Search_calculate_similarity(call.query, call.text)) THEN 2
        ELSE IF /\ queryWords # {}
                /\ 2 * Cardinality(queryWords \cap textWords) >= Cardinality(queryWords)
             THEN 3
        ELSE 4

\* C13: the result of _fuzzy_match is (True, 1.0) in tier 1, (True, s) in
\* tier 2, (True, shared keywords / query keywords) in tier 3 and (False, s)
\* in every remaining case, s being the text similarity of query and text.
C13_ThreeTierDecision ==
    call.op = "fuzzy_match" =>
        LET s == Search_calculate_similarity(call.query, call.text)
            queryWords == SeqToSet(Search_extract_keywords(call.query, 2))
            textWords  == SeqToSet(Search_extract_keywords(call.text, 2))
        IN  CASE FuzzyTier = 1 -> call.matched /\ RatEq(call.score, <<1, 1>>)
              [] FuzzyTier = 2 -> call.matched /\ RatEq(call.score, s)
              [] FuzzyTier = 3 ->
                    /\ call.matched
                    /\ RatEq(call.score, <<Cardinality(queryWords \cap textWords),
                                           Cardinality(queryWords)>>)
              [] OTHER -> ~call.matched /\ RatEq(call.score, s)

\* no title of day d contains the topic, letter case apart
NoTitleContains(d, topic) ==
    NoSnapshot(d) \/ \A i \in 1..Len(store[d].items) :
                         ~Contains(Lower(topic), Lower(store[d].items[i].title))

\* C15: get_topic_trend_analysis over a date range in which no title of any
\* day contains the topic returns change_rate 0 and no peak_time (None).
C15_NoMatchNoPeak ==
    (/\ call.op = "get_topic_trend_analysis"
     /\ call.res.success
     /\ \A d \in StartOf(call.args.date_range, Today - 6)
                     .. EndOf(call.args.date_range, Today) :
            NoTitleContains(d, call.args.topic))
    => /\ call.res.data.statistics.change_rate = 0
       /\ call.res.data.statistics.peak_time = << >>

(***************************************************************************)
(* analyze_topic_lifecycle on repositories that hold the seven days of the *)
(* default range, Today - 6 .. Today, with a chosen number of titles that  *)
(* contain the topic on each day.                                          *)
(***************************************************************************)
DailyCounts == {0, 1, 2, 3, 5}

TitleDigits == <<"1", "2", "3", "4", "5", "6">>

\* a day with c titles that contain QueryAb; without such a title the day has
\* no snapshot (even days) or a snapshot with another title (odd days)
CountedSnapshot(d, c) ==
    IF c = 0
    THEN IF d % 2 = 0 THEN [present |-> FALSE, items |-> << >>]
         ELSE [present |-> TRUE,
               items |-> <<[platform |-> "p1", title |-> TitleAc, ranks |-> <<1>>]>>]
    ELSE [present |-> TRUE,
          items |-> [k \in 1..c |-> [platform |-> "p1",
                                     title |-> QueryAb \o <<TitleDigits[k]>>,
                                     ranks |-> <<k>>]]]

\* the repository whose day Today - 7 + i holds counts[i] titles with the topic
CountedStore(counts) ==
    [d \in (Today - 6)..Today |-> CountedSnapshot(d, counts[d - (Today - 7)])]

InitLifecycle ==
    /\ store \in {CountedStore(c) : c \in [1..7 -> DailyCounts]}
    /\ call = NoCall

Call_analyze_topic_lifecycle_OfWeek ==
    /\ \E r \in {NoRange, Range(Today - 1, Today)} :
          LET args == [topic |-> QueryAb, date_range |-> r, fault |-> {}]
          IN  call' = Finished("analyze_topic_lifecycle", args,
                               analyze_topic_lifecycle(store, args))
    /\ UNCHANGED store

NextLifecycle == Call_analyze_topic_lifecycle_OfWeek

SpecLifecycle == InitLifecycle /\ [][NextLifecycle]_vars

\* the number of titles of day d that contain the topic, letter case apart
DayCount(d, topic) ==
    IF d \notin DOMAIN store \/ ~store[d].present THEN 0
    ELSE Cardinality({i \in 1..Len(store[d].items) :
                         Contains(Lower(topic), Lower(store[d].items[i].title))})

\* the daily counts of the 7 days of the default range are counts
WeekCounts(counts) ==
    /\ call.op = "analyze_topic_lifecycle"
    /\ ~call.args.date_range.given
    /\ \A i \in 1..7 : DayCount(Today - 7 + i, call.args.topic) = counts[i]

\* C16 as claimed: daily counts 0,0,0,5,3,2,1 give first_appearance the 4th
\* day, active_days 4 and the stage declining.
C16_LateStartIsDeclining ==
    WeekCounts(<<0, 0, 0, 5, 3, 2, 1>>) =>
        /\ call.res.success
        /\ call.res.data.analysis.first_appearance = Today - 3
        /\ call.res.data.analysis.active_days = 4
        /\ call.res.data.analysis.lifecycle_stage = "declining"

\* C16 as amended: daily counts 0,0,0,5,3,2,1 give first_appearance the 4th
\* day, active_days 4 and the stage rising (the last 3 days sum to 6, the
\* first 3 to 0).
C16_LateStartIsRising ==
    WeekCounts(<<0, 0, 0, 5, 3, 2, 1>>) =>
        /\ call.res.success
        /\ call.res.data.analysis.first_appearance = Today - 3
        /\ call.res.data.analysis.active_days = 4
        /\ call.res.data.analysis.lifecycle_stage = "rising"

C16_Witness ==
    /\ WeekCounts(<<0, 0, 0, 5, 3, 2, 1>>)
    /\ call.res.success
    /\ Len(call.res.data.lifecycle_data) = 7
    /\ call.res.data.lifecycle_data[4].count = 5
    /\ call.res.data.analysis.lifecycle_stage = "rising"

\* the titles with the topic on the days from..to of the repository
RECURSIVE CountOfDays(_, _, _)
CountOfDays(from, to, topic) ==
    IF from > to THEN 0 ELSE DayCount(from, topic) + CountOfDays(from + 1, to, topic)

\* C17: analyze_topic_lifecycle fails with DATA_NOT_FOUND when no day of the
\* range has a title with the topic; otherwise the stage is rising when the
\* last 3 days count more than the first 3, else declining when they count
\* less than half of the first 3, else bursting when a day of the last 3 has
\* the maximum count, else stable.
C17_StageByFirstMatch ==
    (/\ call.op = "analyze_topic_lifecycle"
     /\ call.args.topic # << >>
     /\ call.args.fault = {}
     /\ StartOf(call.args.date_range, Today - 6) <= EndOf(call.args.date_range, Today))
    =>
    LET start  == StartOf(call.args.date_range, Today - 6)
        end    == EndOf(call.args.date_range, Today)
        topic  == call.args.topic
        recent == CountOfDays(Max2(start, end - 2), end, topic)
        early  == CountOfDays(start, Min2(end, start + 2), topic)
        peakIsRecent == \E d \in Max2(start, end - 2)..end :
                            \A e \in start..end : DayCount(e, topic) <= DayCount(d, topic)
    IN  IF CountOfDays(start, end, topic) = 0
        THEN ~call.res.success /\ call.res.code = "DATA_NOT_FOUND"
        ELSE /\ call.res.success
             /\ call.res.data.analysis.lifecycle_stage =
                    (IF recent > early THEN "rising"
                     ELSE IF 2 * recent < early THEN "declining"
                     ELSE IF peakIsRecent THEN "bursting"
                     ELSE "stable")

\* a week that declines although its peak is in the last 3 days
C17_Witness ==
    /\ WeekCounts(<<5, 5, 5, 0, 0, 5, 0>>)
    /\ call.res.success
    /\ call.res.data.analysis.lifecycle_stage = "declining"
    /\ call.res.data.analysis.peak_count = 5

(***************************************************************************)
(* detect_viral_topics on repositories in which three keywords occur a     *)
(* chosen number of times today and on the previous day.                   *)
(***************************************************************************)
ViralKeywords == <<<<"a", "a">>, <<"b", "b">>, <<"c", "c">>>>

TodayCounts == {0, 3, 4, 5, 6}

PreviousCounts == {0, 1, 2}

\* c titles whose only keyword is the given one
KeywordTitles(keyword, c) ==
    [i \in 1..c |-> [platform |-> "p1", title |-> keyword \o <<" ", TitleDigits[i]>>,
                     ranks |-> <<i>>]]

KeywordSnapshot(counts) ==
    [present |-> TRUE,
     items |-> Flatten([j \in 1..Len(ViralKeywords) |->
                            KeywordTitles(ViralKeywords[j], counts[j])])]

KeywordStore(today, previous) ==
    [d \in Days |-> IF d = Today THEN today
                    ELSE IF d = Today - 1 THEN previous
                    ELSE [present |-> FALSE, items |-> << >>]]

InitViral ==
    /\ store \in {KeywordStore(KeywordSnapshot(c), p) :
                    c \in [1..Len(ViralKeywords) -> TodayCounts],
                    p \in {[present |-> FALSE, items |-> << >>]}
                          \cup {KeywordSnapshot(pc) :
                                   pc \in [1..Len(ViralKeywords) -> PreviousCounts]}}
    /\ call = NoCall

NextViral == Call_detect_viral_topics

SpecViral == InitViral /\ [][NextViral]_vars

\* how often the keyword is a word of a title of day d
KeywordFrequency(d, keyword) ==
    IF NoSnapshot(d) THEN 0
    ELSE Cardinality(UNION {{<<i, p>> : p \in {q \in WordStarts(store[d].items[i].title) :
                                                  WordAt(store[d].items[i].title, q) = keyword}} :
                               i \in 1..Len(store[d].items)})

ViralCallDone ==
    /\ call.op = "detect_viral_topics"
    /\ call.args.threshold >= 100
    /\ call.args.time_window >= 1
    /\ call.args.fault = {}
    /\ ~NoSnapshot(Today)

Reported(keyword) ==
    \E i \in 1..Len(call.res.data.viral_topics) :
        call.res.data.viral_topics[i].keyword = keyword

\* C18: detect_viral_topics succeeds also without data of the previous day;
\* a keyword that did not occur on the previous day is reported, as new, if
\* and only if it occurs at least 5 times today; a keyword that occurred p > 0
\* times is reported if and only if today's count / p >= threshold.
C18_ViralIffNewFiveOrGrowth ==
    ViralCallDone =>
        /\ call.res.success
        /\ \A j \in 1..Len(ViralKeywords) :
              LET k == ViralKeywords[j]
                  current  == KeywordFrequency(Today, k)
                  previous == KeywordFrequency(Today - 1, k)
              IN  /\ Reported(k) <=>
                        IF previous = 0 THEN current >= 5
                        ELSE current * 100 >= call.args.threshold * previous
                  /\ \A i \in 1..Len(call.res.data.viral_topics) :
                        call.res.data.viral_topics[i].keyword = k =>
                            /\ call.res.data.viral_topics[i].new <=> previous = 0
                            /\ call.res.data.viral_topics[i].current_count = current
                            /\ call.res.data.viral_topics[i].previous_count = previous
        /\ \A i \in 1..Len(call.res.data.viral_topics) :
              \E j \in 1..Len(ViralKeywords) :
                  call.res.data.viral_topics[i].keyword = ViralKeywords[j]

\* no data of the previous day: 5 occurrences are reported as new, 4 are not
C18_Witness ==
    /\ ViralCallDone
    /\ NoSnapshot(Today - 1)
    /\ KeywordFrequency(Today, ViralKeywords[1]) = 5
    /\ KeywordFrequency(Today, ViralKeywords[2]) = 4
    /\ Len(call.res.data.viral_topics) = 1
    /\ call.res.data.viral_topics[1].keyword = ViralKeywords[1]
    /\ call.res.data.viral_topics[1].new

\* C19: in viral_topics every new topic comes before every topic with a
\* numeric growth rate; the new topics are in descending order of
\* current_count, the others in descending order of growth_rate.
C19_NewTopicsFirst ==
    (call.op = "detect_viral_topics" /\ call.res.success) =>
        \A i \in 1..Len(call.res.data.viral_topics) :
            \A j \in (i + 1)..Len(call.res.data.viral_topics) :
                LET x == call.res.data.viral_topics[i]
                    y == call.res.data.viral_topics[j]
                IN  /\ ~(~x.new /\ y.new)
                    /\ (x.new /\ y.new) => x.current_count >= y.current_count
                    /\ (~x.new /\ ~y.new) => x.growth_rate >= y.growth_rate

(***************************************************************************)
(* predict_trending_topics on repositories that hold the three previous    *)
(* days and today: two keywords with a chosen count on each day and,       *)
(* optionally, a crowd of 21 keywords that occur once on the previous day  *)
(* and twice today.                                                        *)
(***************************************************************************)
HistoryCounts == {0, 1, 3}

CrowdLetters == <<"c", "d", "e", "f", "g">>

\* 21 keywords of two letters
CrowdKeywords == [n \in 1..(TopPredicted + 1) |->
                     <<CrowdLetters[((n - 1) \div 5) + 1], CrowdLetters[((n - 1) % 5) + 1]>>]

\* a title with `size` keywords of the crowd: those of the chunk
CrowdTitle(chunk, size, digit) ==
    Flatten([n \in 1..size |-> CrowdKeywords[(chunk - 1) * size + n] \o <<" ">>])
        \o <<digit>>

\* every keyword of the crowd once on the previous day and twice today, in
\* titles of 3 keywords
CrowdTitles(d) ==
    LET size   == 3
        chunks == Len(CrowdKeywords) \div size
        times  == IF d = Today THEN 2 ELSE IF d = Today - 1 THEN 1 ELSE 0
    IN  [k \in 1..(chunks * times) |->
            [platform |-> "p2",
             title    |-> CrowdTitle(((k - 1) % chunks) + 1, size,
                                     TitleDigits[((k - 1) \div chunks) + 1]),
             ranks    |-> <<k>>]]

HistorySnapshot(d, a, b, crowd) ==
    LET items == KeywordTitles(ViralKeywords[1], a) \o KeywordTitles(ViralKeywords[2], b)
                    \o (IF crowd THEN CrowdTitles(d) ELSE << >>)
    IN  [present |-> items # << >>, items |-> items]

HistoryStore(as, bs, crowd) ==
    [d \in (Today - 3)..Today |->
        HistorySnapshot(d, as[d - (Today - 4)], bs[d - (Today - 4)], crowd)]

\* the histories of the two keywords that are tried with the crowd
CrowdedHistories == {<<0, 1, 1, 3>>, <<3, 0, 1, 3>>, <<0, 0, 1, 3>>, <<0, 0, 0, 0>>}

InitPredict ==
    /\ store \in {HistoryStore(as, bs, FALSE) :
                    as \in [1..4 -> HistoryCounts], bs \in [1..4 -> HistoryCounts]}
                 \cup {HistoryStore(as, bs, TRUE) :
                          as \in CrowdedHistories, bs \in CrowdedHistories}
    /\ call = NoCall

NextPredict == Call_predict_trending_topics

SpecPredict == InitPredict /\ [][NextPredict]_vars

\* the counts of the keyword on the days, of the last three and today, on
\* which it occurs
HistoryOf(keyword) ==
    LET counts == [i \in 1..4 |-> KeywordFrequency(Today - 4 + i, keyword)]
        Pos(c) == c > 0
    IN  SelectSeq(counts, Pos)

ExpectedConfidence(h) ==
    IF Len(h) = 2 THEN 60
    ELSE IF \A i \in 1..(Len(h) - 1) : h[i] <= h[i + 1] THEN 90 ELSE 70

\* candidates: 2 or more points, growth above 30%, confidence at the threshold
IsCandidate(keyword) ==
    LET h == HistoryOf(keyword)
    IN  /\ Len(h) >= 2
        /\ 10 * (h[Len(h)] - h[Len(h) - 1]) > 3 * h[Len(h) - 1]
        /\ ExpectedConfidence(h) >= call.args.confidence_threshold

KnownKeywords ==
    {ViralKeywords[1], ViralKeywords[2]} \cup {CrowdKeywords[n] : n \in 1..Len(CrowdKeywords)}

\* C20: every topic predict_trending_topics returns has a history of 2 or
\* more points that grows by more than 30% from its last but one to its last
\* point, and a confidence, 0.9 for 3 or more points that never decrease, 0.7
\* for 3 or more points otherwise, 0.6 for 2 points, that is at least
\* confidence_threshold; the list is in descending order of (confidence,
\* growth_rate) and has at most 20 entries; total_predicted is the number of
\* all keywords that qualify.
C20_PredictedTopicsQualify ==
    (call.op = "predict_trending_topics" /\ call.res.success) =>
        LET topics == call.res.data.predicted_topics
        IN  /\ \A i \in 1..Len(topics) :
                  /\ topics[i].keyword \in KnownKeywords
                  /\ topics[i].trend_data = HistoryOf(topics[i].keyword)
                  /\ IsCandidate(topics[i].keyword)
                  /\ topics[i].confidence = ExpectedConfidence(topics[i].trend_data)
                  /\ topics[i].growth_rate > 3000
                  /\ \A j \in 1..Len(topics) : i # j => topics[i].keyword # topics[j].keyword
            /\ \A i \in 1..(Len(topics) - 1) :
                  \/ topics[i].confidence > topics[i + 1].confidence
                  \/ /\ topics[i].confidence = topics[i + 1].confidence
                     /\ topics[i].growth_rate >= topics[i + 1].growth_rate
            /\ Len(topics) <= 20
            /\ call.res.data.total_predicted = Cardinality({k \in KnownKeywords : IsCandidate(k)})
            /\ Len(topics) = Min2(20, call.res.data.total_predicted)

\* 23 candidates, 20 returned, a steadily growing keyword ahead of the others
C20_Witness ==
    /\ call.op = "predict_trending_topics"
    /\ call.res.success
    /\ call.args.confidence_threshold = 60
    /\ call.res.data.total_predicted = 23
    /\ Len(call.res.data.predicted_topics) = 20
    /\ call.res.data.predicted_topics[1].confidence = 90
    /\ call.res.data.predicted_topics[1].trend_data = <<1, 1, 3>>
    /\ call.res.data.predicted_topics[2].confidence = 70
    /\ call.res.data.predicted_topics[3].confidence = 60

(***************************************************************************)
(* The operations that report scores, rates and confidences, on the        *)
(* repositories of Spec and on repositories with a history of four days.   *)
(***************************************************************************)
InitScores ==
    /\ store \in Stores \cup {HistoryStore(as, bs, FALSE) :
                                as \in CrowdedHistories, bs \in CrowdedHistories}
    /\ call = NoCall

NextScores ==
    \/ Call_search_news_unified
    \/ Call_search_related_news_history
    \/ Call_find_similar_news
    \/ Call_compare_platforms
    \/ Call_predict_trending_topics

SpecScores == InitScores /\ [][NextScores]_vars

\* the scores of a success envelope, each with the value that stands for 1.0
\* in its unit
ReportedScores ==
    IF ~call.res.success THEN {}
    ELSE CASE call.op = "search_news_unified" ->
                {<<call.res.data.results[i].similarity_score, 10000>> :
                    i \in 1..Len(call.res.data.results)}
           [] call.op = "search_related_news_history" ->
                UNION {{<<call.res.data.results[i].similarity_score, 10000>>,
                        <<call.res.data.results[i].keyword_overlap, 10000>>,
                        <<call.res.data.results[i].text_similarity, 10000>>} :
                          i \in 1..Len(call.res.data.results)}
           [] call.op = "find_similar_news" ->
                {<<call.res.data.similar_news[i].similarity, 1000>> :
                    i \in 1..Len(call.res.data.similar_news)}
           [] call.op = "predict_trending_topics" ->
                {<<call.res.data.predicted_topics[i].confidence, 100>> :
                    i \in 1..Len(call.res.data.predicted_topics)}
           [] OTHER -> {}

\* the coverage rates of a success envelope of compare_platforms, in hundredths
ReportedCoverage ==
    IF call.op = "compare_platforms" /\ call.res.success
    THEN {call.res.data.coverage_rate[n] : n \in DOMAIN call.res.data.coverage_rate}
    ELSE {}

\* C14 as claimed: every similarity score, coverage rate and confidence of a
\* success envelope lies in [0, 1].
C14_ScoresAndRatesInUnitInterval ==
    /\ \A x \in ReportedScores : 0 <= x[1] /\ x[1] <= x[2]
    /\ \A r \in ReportedCoverage : 0 <= r /\ r <= 100

\* C14 as amended: every similarity score and confidence of a success
\* envelope lies in [0, 1]; every coverage rate is a percentage in [0, 100].
C14_ScoresInUnitIntervalRatesInPercent ==
    /\ \A x \in ReportedScores : 0 <= x[1] /\ x[1] <= x[2]
    /\ \A r \in ReportedCoverage : 0 <= r /\ r <= 10000

\* a platform all of whose titles mention the topic: coverage_rate 100.0
C14_Witness ==
    /\ call.op = "compare_platforms"
    /\ call.res.success
    /\ "n1" \in DOMAIN call.res.data.total_news
    /\ call.res.data.total_news["n1"] = 1
    /\ call.res.data.topic_mentions["n1"] = 1
    /\ call.res.data.coverage_rate["n1"] = 10000

(***************************************************************************)
(* analyze_keyword_cooccurrence on repositories whose snapshot of today    *)
(* lists up to three of six titles on p1 and at most one on p2.  The words *)
(* bt, fd, rd and nw stand for breakthrough, funding, round and news.      *)
(***************************************************************************)
TitleAiBt == <<"A", "I", " ", "b", "t">>

TitleAiFdRd == <<"A", "I", " ", "f", "d", " ", "r", "d">>

TitleAiBtNw == <<"A", "I", " ", "b", "t", " ", "n", "w">>

TitleBtAi == <<"b", "t", " ", "A", "I">>

TitleAiAiNw == <<"A", "I", " ", "A", "I", " ", "n", "w">>

CooccurTitles == {TitleAiBt, TitleAiFdRd, TitleAiBtNw, TitleBtAi, TitleAiAiNw, TitleAc}

\* the sequences without repetition of at most n of the titles
TitleLists(n) ==
    {s \in UNION {[1..m -> CooccurTitles] : m \in 0..n} :
        \A i, j \in 1..Len(s) : i # j => s[i] # s[j]}

ListedStore(titles1, titles2) ==
    [d \in {Today} |->
        [present |-> TRUE,
         items |-> [i \in 1..Len(titles1) |->
                       [platform |-> "p1", title |-> titles1[i], ranks |-> <<i>>]]
                   \o [i \in 1..Len(titles2) |->
                       [platform |-> "p2", title |-> titles2[i], ranks |-> <<i>>]]]]

InitCooccur ==
    /\ store \in {ListedStore(titles1, titles2) :
                    titles1 \in TitleLists(3),
                    titles2 \in {<< >>, <<TitleAiFdRd>>, <<TitleAiAiNw>>}}
    /\ call = NoCall

NextCooccur == Call_analyze_keyword_cooccurrence

SpecCooccur == InitCooccur /\ [][NextCooccur]_vars

CooccurDone == call.op = "analyze_keyword_cooccurrence" /\ call.res.success

ReportedPairs == call.res.data.cooccurrence_pairs

\* the words of a title, found from the places where a word starts
WordsOf(title) == {WordAt(title, i) : i \in WordStarts(title)}

KeywordAi == <<"A", "I">>

KeywordBt == <<"b", "t">>

\* C21: every returned pair is canonical (keyword1 <= keyword2 in string
\* order), no unordered pair is returned twice, every count is at least
\* min_frequency, at most top_n pairs are returned, in descending order of
\* their counts; for the titles "AI bt", "AI fd rd", "AI bt nw" and
\* min_frequency 2 the pair (AI, bt) with count 2 is returned and no other.
C21_PairsCanonicalFrequentRanked ==
    CooccurDone =>
        /\ \A n \in 1..Len(ReportedPairs) :
              /\ LeqText(ReportedPairs[n].keyword1, ReportedPairs[n].keyword2)
              /\ ReportedPairs[n].cooccurrence_count >= call.args.min_frequency
              /\ \A m \in 1..Len(ReportedPairs) :
                    m # n => {ReportedPairs[m].keyword1, ReportedPairs[m].keyword2}
                                # {ReportedPairs[n].keyword1, ReportedPairs[n].keyword2}
              /\ n > 1 => ReportedPairs[n - 1].cooccurrence_count
                            >= ReportedPairs[n].cooccurrence_count
        /\ Len(ReportedPairs) <= call.args.top_n
        /\ Len(ReportedPairs) = call.res.data.total_pairs
        /\ (store = ListedStore(<<TitleAiBt, TitleAiFdRd, TitleAiBtNw>>, << >>)
                /\ call.args.min_frequency = 2)
             => /\ Len(ReportedPairs) = 1
                /\ ReportedPairs[1].keyword1 = KeywordAi
                /\ ReportedPairs[1].keyword2 = KeywordBt
                /\ ReportedPairs[1].cooccurrence_count = 2

\* the scenario: (AI, bt) with count 2 is the only returned pair of the six counted
C21_Witness ==
    /\ CooccurDone
    /\ store = ListedStore(<<TitleAiBt, TitleAiFdRd, TitleAiBtNw>>, << >>)
    /\ call.args.min_frequency = 2
    /\ call.args.top_n = 5
    /\ Len(ReportedPairs) = 1
    /\ ReportedPairs[1].keyword1 = KeywordAi
    /\ ReportedPairs[1].keyword2 = KeywordBt
    /\ ReportedPairs[1].cooccurrence_count = 2
    /\ Cardinality(SeqToSet(CooccurrenceIncrements(store[Today].items))) = 6

\* the entries of today whose title holds both keywords
EntriesWithBoth(kw1, kw2) ==
    {i \in 1..Len(store[Today].items) :
        /\ kw1 \in WordsOf(store[Today].items[i].title)
        /\ kw2 \in WordsOf(store[Today].items[i].title)}

\* C22: the count reported for a pair is the number of entries (platform,
\* title) in which both keywords appear, and the two keywords of a pair are
\* distinct, also when a keyword occurs more than once in a title.
C22_CountIsTitlesWithBoth ==
    CooccurDone =>
        \A n \in 1..Len(ReportedPairs) :
            /\ ReportedPairs[n].keyword1 # ReportedPairs[n].keyword2
            /\ ReportedPairs[n].cooccurrence_count
                  = Cardinality(EntriesWithBoth(ReportedPairs[n].keyword1,
                                                ReportedPairs[n].keyword2))

(***************************************************************************)
(* compare_platforms on repositories of two days whose titles hold three   *)
(* keywords of the crowd each: on p1 up to twelve keywords, some of them   *)
(* twice, on p2 up to nine.                                                *)
(***************************************************************************)
ChunkEntry(platform, chunk, digit) ==
    [platform |-> platform, title |-> CrowdTitle(chunk, 3, digit), ranks |-> <<chunk>>]

\* the entries p1 and p2 may list today
FirstPool == <<ChunkEntry("p1", 1, "1"), ChunkEntry("p1", 2, "1"), ChunkEntry("p1", 3, "1"),
               ChunkEntry("p1", 4, "1"), ChunkEntry("p1", 1, "2"), ChunkEntry("p1", 4, "2")>>

SecondPool == <<ChunkEntry("p2", 4, "1"), ChunkEntry("p2", 5, "1"), ChunkEntry("p2", 1, "1")>>

\* the entries of a pool chosen by a set of indices, in the order of the pool
Chosen(pool, picked) ==
    LET In(i) == i \in picked
        kept  == SelectSeq([i \in 1..Len(pool) |-> i], In)
    IN  [k \in 1..Len(kept) |-> pool[kept[k]]]

SnapshotOf(items) == [present |-> items # << >>, items |-> items]

InitCompare ==
    /\ store \in {[d \in {Today - 1, Today} |->
                      IF d = Today
                      THEN SnapshotOf(Chosen(FirstPool, x) \o Chosen(SecondPool, y))
                      ELSE SnapshotOf(z)] :
                    x \in {{}, {1}} \cup {{1, 2, 3} \cup s : s \in SUBSET {4, 5, 6}},
                    y \in SUBSET (1..Len(SecondPool)),
                    z \in {<< >>, <<ChunkEntry("p1", 1, "1")>>}}
    /\ call = NoCall

Call_compare_platforms_OfCrowd ==
    /\ \E r \in {NoRange, Range(Today - 1, Today)}, h \in {0, 3, 7} :
          LET args == [topic |-> CrowdKeywords[1], date_range |-> r, hash_seed |-> h,
                       fault |-> {}]
          IN  call' = Finished("compare_platforms", args, compare_platforms(store, args))
    /\ UNCHANGED store

NextCompare == Call_compare_platforms_OfCrowd

SpecCompare == InitCompare /\ [][NextCompare]_vars

CompareDone == call.op = "compare_platforms" /\ call.res.success

\* the occurrences of a keyword in the titles a platform name lists on the
\* days of the range: (day, entry, place in the title)
Occurrences(name, keyword) ==
    UNION {UNION {{<<d, i, p>> : p \in {q \in WordStarts(store[d].items[i].title) :
                                           WordAt(store[d].items[i].title, q) = keyword}} :
                     i \in {j \in 1..Len(store[d].items) :
                               PlatformName(store[d].items[j].platform) = name}} :
              d \in {e \in DOMAIN store :
                        /\ StartOf(call.args.date_range, Today) <= e
                        /\ e <= EndOf(call.args.date_range, Today)}}

Earlier(o1, o2) ==
    \/ o1[1] < o2[1]
    \/ o1[1] = o2[1] /\ o1[2] < o2[2]
    \/ o1[1] = o2[1] /\ o1[2] = o2[2] /\ o1[3] < o2[3]

FirstOf(all) == CHOOSE o \in all : \A o2 \in all : o2 = o \/ Earlier(o, o2)

\* the keywords a platform name counts, each with its count and the place
\* where it is met first
KeywordTable(name) ==
    {[keyword |-> k, count |-> Cardinality(Occurrences(name, k)),
      first |-> FirstOf(Occurrences(name, k))] :
        k \in {k2 \in SeqToSet(CrowdKeywords) : Occurrences(name, k2) # {}}}

\* the keywords with fewer than 10 keywords ahead of them: those that are more
\* frequent, or as frequent and met earlier
TopTenOf(table) ==
    {r.keyword : r \in {r2 \in table :
        Cardinality({s \in table : \/ s.count > r2.count
                                   \/ s.count = r2.count /\ Earlier(s.first, r2.first)})
            < UniqueTopKeywords}}

\* the 10 most frequent keywords of every platform name, as pairs
TopTens == {<<name, TopTenOf(KeywordTable(name))>> : name \in DOMAIN call.res.data.total_news}

UniqueAmong(tops, name) ==
    UNION {x[2] : x \in {y \in tops : y[1] = name}}
        \ UNION {x[2] : x \in {y \in tops : y[1] # name}}

UniqueTo(name) == UniqueAmong(TopTens, name)

\* C23: every keyword of unique_topics[p] is among the 10 most frequent
\* keywords of p and of no other platform; a list has at most 5 entries and
\* at least one, the lists of two platforms are disjoint, a platform without
\* such a keyword has no list; topic_mentions and unique_titles are at most
\* total_news.
C23_UniqueTopicsOfTopTen ==
    CompareDone =>
        LET tops   == TopTens
            listed == call.res.data.unique_topics
        IN  /\ DOMAIN listed \subseteq DOMAIN call.res.data.total_news
            /\ \A p \in DOMAIN call.res.data.total_news :
                  /\ call.res.data.topic_mentions[p] <= call.res.data.total_news[p]
                  /\ call.res.data.unique_titles[p] <= call.res.data.total_news[p]
                  /\ p \in DOMAIN listed <=> UniqueAmong(tops, p) # {}
            /\ \A p \in DOMAIN listed :
                  /\ Len(listed[p]) <= UniqueTopicsMax
                  /\ SeqToSet(listed[p]) \subseteq UniqueAmong(tops, p)
                  /\ \A q \in DOMAIN listed :
                        q # p => SeqToSet(listed[p]) \cap SeqToSet(listed[q]) = {}

\* p1 counts twelve keywords, three of them shared with p2: 5 of its 7
\* unique keywords are listed, and p2 lists its own three
C23_Witness ==
    /\ CompareDone
    /\ call.args.date_range = Range(Today - 1, Today)
    /\ DOMAIN call.res.data.unique_topics = {"n1", "p2"}
    /\ Cardinality({k \in SeqToSet(CrowdKeywords) : Occurrences("n1", k) # {}}) = 12
    /\ Cardinality(UniqueTo("n1")) = 7
    /\ Len(call.res.data.unique_topics["n1"]) = 5
    /\ Len(call.res.data.unique_topics["p2"]) = 3
    /\ call.res.data.unique_titles["n1"] < call.res.data.total_news["n1"]
    /\ call.res.data.topic_mentions["n1"] = 2

(***************************************************************************)
(* analyze_sentiment, recounted from the repository as it is when the call *)
(* starts: a step that ends with call'.op = "analyze_sentiment" is that    *)
(* call, made with call'.args on the unprimed store.                       *)
(***************************************************************************)
SentimentDaysOf(args) ==
    {d \in Days : /\ StartOf(args.date_range, Today) <= d
                  /\ d <= EndOf(args.date_range, Today)
                  /\ store[d].present}

\* the entries of day d the call collects
SentimentCollected(args, d) ==
    LET Hit(e) == /\ args.platforms = NoFilter \/ e.platform \in args.platforms
                  /\ args.topic = << >> \/ Contains(Lower(args.topic), Lower(e.title))
    IN  SelectSeq(store[d].items, Hit)

SentimentKeys(args) ==
    UNION {{<<PlatformName(SentimentCollected(args, d)[i].platform),
              SentimentCollected(args, d)[i].title>> :
                i \in 1..Len(SentimentCollected(args, d))} : d \in SentimentDaysOf(args)}

CollectedCount(args) ==
    LET days == SentimentDaysOf(args)
        Upto(d) == {<<e, i>> \in days \X (1..4) :
                        e <= d /\ i <= Len(SentimentCollected(args, e))}
    IN  IF days = {} THEN 0
        ELSE Cardinality(Upto(CHOOSE d \in days : \A e \in days : e <= d))

\* the rank histories of the key on the days of the range, oldest day first
RECURSIVE MergedHistory(_, _, _)
MergedHistory(args, key, d) ==
    IF d > MaxDay THEN << >>
    ELSE LET own == IF d \in SentimentDaysOf(args)
                    THEN LET Same(e) == <<PlatformName(e.platform), e.title>> = key
                             es == SelectSeq(SentimentCollected(args, d), Same)
                         IN  Flatten([i \in 1..Len(es) |-> es[i].ranks])
                    ELSE << >>
         IN  own \o MergedHistory(args, key, d + 1)

SentimentClean(args) ==
    /\ SentimentArgsOk(args)
    /\ \A d \in args.fault :
          d < StartOf(args.date_range, Today) \/ d > EndOf(args.date_range, Today)

TitleLowerAiNw == <<"a", "i", " ", "n", "w">>

ListedHistories == {<< >>, <<5>>, <<7, 3>>}

\* an entry with each of the rank histories, and the absent entry
Listed(platform, title) ==
    {<< >>} \cup {<<[platform |-> platform, title |-> title, ranks |-> h]>> :
                    h \in ListedHistories}

InitEntity ==
    /\ store \in {[d \in {Today} |-> [present |-> TRUE, items |-> x \o y \o z \o u]] :
                    x \in Listed("p1", TitleAiBt), y \in Listed("p1", TitleBtAi),
                    z \in Listed("p2", TitleAiBtNw),
                    u \in {<< >>, <<[platform |-> "p2", title |-> TitleLowerAiNw,
                                     ranks |-> <<1>>]>>}}
    /\ call = NoCall

Call_search_by_entity_OfListed ==
    \E e \in {KeywordAi, <<"a", "i">>}, w \in BOOLEAN, l \in {1, 3} :
        LET args == [entity |-> e, entity_type |-> "", limit |-> l,
                     sort_by_weight |-> w, fault |-> {}]
        IN  /\ call' = Finished("search_by_entity", args, search_by_entity(store, args))
            /\ UNCHANGED store

NextEntity == Call_search_by_entity_OfListed

SpecEntity == InitEntity /\ [][NextEntity]_vars

\* min(ranks), 999 for an empty history
BestRank(ranks) ==
    IF ranks = << >> THEN 999
    ELSE CHOOSE r \in {ranks[i] : i \in 1..Len(ranks)} :
            \A i \in 1..Len(ranks) : r <= ranks[i]

EntityMatches == {i \in 1..Len(store[Today].items) :
                    Contains(call.args.entity, store[Today].items[i].title)}

\* C25: search_by_entity with sort_by_weight = false returns the matching
\* news in ascending order of the smallest rank of each item's rank history,
\* an empty history counting as 999; a title matches when it contains the
\* entity in the same letter case; the entity is not among related_keywords;
\* without a match the result is the failure DATA_NOT_FOUND.
C25_EntityNewsByBestRank ==
    (call.op = "search_by_entity" /\ ~call.args.sort_by_weight) =>
        IF EntityMatches = {}
        THEN ~call.res.success /\ call.res.code = "DATA_NOT_FOUND"
        ELSE LET news == call.res.data.related_news
                 words == call.res.data.related_keywords
             IN  /\ call.res.success
                 /\ call.res.data.total_found = Cardinality(EntityMatches)
                 /\ \A i \in 1..Len(news) : Contains(call.args.entity, news[i].title)
                 /\ \A i, j \in 1..Len(news) :
                       i < j => BestRank(news[i].ranks) <= BestRank(news[j].ranks)
                 /\ \A i \in 1..Len(words) : words[i].keyword # call.args.entity

(***************************************************************************)
(* search_related_news_history when the read of a day fails unexpectedly.  *)
(***************************************************************************)
HistoryCall ==
    /\ call.op = "search_related_news_history"
    /\ KeywordOk(call.args.reference_text)
    /\ LimitOk(call.args.limit)
    /\ call.args.time_preset \in TimePresets
    /\ call.args.time_preset = "custom" => call.args.custom_range.given
    /\ Search_extract_keywords(call.args.reference_text, 2) # << >>

HistoryStart == PresetStart(call.args.time_preset, call.args.custom_range)

HistoryEnd == PresetEnd(call.args.time_preset, call.args.custom_range)

FailedDays == {d \in call.args.fault : HistoryStart <= d /\ d <= HistoryEnd}

\* the entries of the days of the range that are read without failure and
\* whose combined score reaches the threshold
NearEntries ==
    {<<d, i>> \in (Days \ FailedDays) \X (1..4) :
        /\ HistoryStart <= d /\ d <= HistoryEnd
        /\ store[d].present
        /\ i <= Len(store[d].items)
        /\ RatLeq(<<Max2(0, Min2(100, call.args.threshold)), 100>>,
                  CombinedScore(
                      calculate_keyword_overlap(
                          Search_extract_keywords(call.args.reference_text, 2),
                          Search_extract_keywords(store[d].items[i].title, 2)),
                      Search_calculate_similarity(call.args.reference_text,
                                                  store[d].items[i].title)))}

HistoryRejected ==
    /\ call.op = "search_related_news_history"
    /\ \/ call.args.time_preset \notin {"yesterday", "last_week", "last_month", "custom"}
       \/ call.args.time_preset = "custom" /\ ~call.args.custom_range.given
       \/ Search_extract_keywords(call.args.reference_text, 2) = << >>

\* 0.7 * keyword_overlap + 0.3 * text_similarity of a title, recomputed
TitleScore(title) ==
    LET overlap == calculate_keyword_overlap(
                       Search_extract_keywords(call.args.reference_text, 2),
                       Search_extract_keywords(title, 2))
        sim == Search_calculate_similarity(call.args.reference_text, title)
    IN  <<7 * overlap[1] * sim[2] + 3 * sim[1] * overlap[2], 10 * overlap[2] * sim[2]>>

PresetRangeAsStated ==
    /\ call.args.time_preset = "yesterday" =>
          call.res.data.start = Today - 1 /\ call.res.data.end = Today - 1
    /\ call.args.time_preset = "last_week" =>
          call.res.data.start = Today - 7 /\ call.res.data.end = Today - 1
    /\ call.args.time_preset = "last_month" =>
          call.res.data.start = Today - 30 /\ call.res.data.end = Today - 1
    /\ call.log = [i \in 1..(call.res.data.end - call.res.data.start + 1) |->
                      ReadCall(call.res.data.start + i - 1)]

ResultsWithin(threshold) ==
    \A i \in 1..Len(call.res.data.results) :
        LET item == call.res.data.results[i]
        IN  /\ call.res.data.start <= item.date /\ item.date <= call.res.data.end
            /\ RatLeq(<<threshold, 100>>, TitleScore(item.title))
            /\ item.similarity_score = Round4(TitleScore(item.title))

\* C27 as stated: search_related_news_history resolves yesterday, last_week
\* and last_month to [today-1, today-1], [today-7, today-1] and
\* [today-30, today-1]; a custom preset without bounds, an unknown preset and
\* a reference text without keyword give the failure INVALID_PARAMETER
\* without any read; every returned item has
\* 0.7 * keyword_overlap + 0.3 * text_similarity >= the threshold argument
\* and a date within the range.
C27_ScoreReachesArgument ==
    /\ HistoryRejected =>
          ~call.res.success /\ call.res.code = "INVALID_PARAMETER" /\ call.log = << >>
    /\ HistoryCall =>
          /\ call.res.success
          /\ PresetRangeAsStated
          /\ ResultsWithin(call.args.threshold)

\* C27: the same, the score of every returned item reaching the threshold
\* argument brought into [0, 1] (a threshold above 1.0 counts as 1.0, one
\* below 0.0 as 0.0).
C27_ScoreReachesClampedThreshold ==
    /\ HistoryRejected =>
          ~call.res.success /\ call.res.code = "INVALID_PARAMETER" /\ call.log = << >>
    /\ HistoryCall =>
          /\ call.res.success
          /\ PresetRangeAsStated
          /\ ResultsWithin(Max2(0, Min2(100, call.args.threshold)))

\* threshold 1.2 and a reference text that a title of the range equals: the
\* title is returned with the score 1.0
C27_Witness ==
    /\ HistoryCall
    /\ call.args.time_preset = "custom"
    /\ call.args.threshold = 120
    /\ call.args.reference_text = TitleAbc
    /\ call.res.success
    /\ Len(call.res.data.results) >= 1
    /\ call.res.data.results[1].title = TitleAbc
    /\ call.res.data.results[1].similarity_score = 10000

\* C28: in every success result of get_topic_trend_analysis peak_count is the
\* greatest count of trend_data and, when total_mentions > 0, peak_time is
\* the date of a day with that count; for a range of one day as for any other.
C28_PeakIsMaximumOfTrend ==
    (call.op = "get_topic_trend_analysis" /\ call.res.success) =>
        LET trend == call.res.data.trend_data
            stats == call.res.data.statistics
        IN  /\ trend # << >> =>
                  /\ \A i \in 1..Len(trend) : trend[i].count <= stats.peak_count
                  /\ \E i \in 1..Len(trend) : trend[i].count = stats.peak_count
            /\ stats.total_mentions > 0 =>
                  /\ stats.peak_time # << >>
                  /\ \E i \in 1..Len(trend) :
                        /\ trend[i].date = stats.peak_time[1]
                        /\ trend[i].count = stats.peak_count

\* the days of the range of the call on which a title contains the topic
ActiveDays ==
    {d \in StartOf(call.args.date_range, Today - 6)..EndOf(call.args.date_range, Today) :
        DayCount(d, call.args.topic) > 0}

RangeDays ==
    EndOf(call.args.date_range, Today) - StartOf(call.args.date_range, Today - 6) + 1

\* C29: analyze_topic_lifecycle never returns the topic type flash: with at
\* least one positive daily count the type is sustained when
\* active_days >= 0.6 * total_days and cyclical otherwise.
C29_FlashIsUnreachable ==
    (call.op = "analyze_topic_lifecycle" /\ ActiveDays # {}) =>
        /\ call.res.success
        /\ call.res.data.analysis.topic_type # "flash"
        /\ call.res.data.analysis.active_days = Cardinality(ActiveDays)
        /\ call.res.data.analysis.topic_type =
              IF 10 * Cardinality(ActiveDays) >= 6 * RangeDays
              THEN "sustained" ELSE "cyclical"

\* two active days of the week, 5 titles on one and 1 on the other: the peak
\* is below twice the mean 3 of the non-zero counts, the type is cyclical
C29_Witness ==
    /\ WeekCounts(<<0, 5, 0, 0, 1, 0, 0>>)
    /\ call.res.success
    /\ call.res.data.analysis.active_days = 2
    /\ call.res.data.analysis.peak_count = 5
    /\ call.res.data.analysis.topic_type = "cyclical"

\* the days before today, of the last three, that have a snapshot
EarlierDaysWithData == {d \in (Today - 3)..(Today - 1) : ~NoSnapshot(d)}

\* C30: for every topic predict_trending_topics returns, current_count is
\* the frequency of the keyword in today's titles, which is positive, it is
\* the last element of trend_data, and the element before it is the
\* keyword's count on the nearest earlier day that has data.
C30_CurrentCountIsOfToday ==
    (call.op = "predict_trending_topics" /\ call.res.success) =>
        \A i \in 1..Len(call.res.data.predicted_topics) :
            LET topic == call.res.data.predicted_topics[i]
                trend == topic.trend_data
            IN  /\ topic.current_count = KeywordFrequency(Today, topic.keyword)
                /\ topic.current_count > 0
                /\ trend[Len(trend)] = topic.current_count
                /\ EarlierDaysWithData # {}
                /\ trend[Len(trend) - 1] =
                      KeywordFrequency(CHOOSE d \in EarlierDaysWithData :
                                           \A e \in EarlierDaysWithData : e <= d,
                                       topic.keyword)

====
